---------------------------- MODULE Spec2Model ----------------------------
(***************************************************************************)
(* A model of the presentor parser (src/parser.ts): parse() and the        *)
(* functions it calls.  A line of input is a sequence of one-character     *)
(* strings, so that the regular expressions of the source are computed on  *)
(* characters.  Indices (bodyStart, the cursor i, endIndex) keep the       *)
(* 0-based values they have in the source.                                 *)
(***************************************************************************)
EXTENDS Integers, Sequences, FiniteSets, TLC

\* ------------------------------------------------------------------ bounds

\* The longest input, in lines.
MaxLines == 4
\* The number of blocks one slide can hold before the heap is exhausted.
MaxBlocks == 6

\* ------------------------------------------------------------ JS strings

\* The value of an optional field that was never set.
Undefined == <<"undefined">>

\* What JS treats as false in `!x`: undefined and the empty string.
Falsy(x) == x = Undefined \/ x = <<>>

\* The characters \s and trim() treat as white space.
IsSpace(c) == c \in {" ", "\t", "\n"}

IsDigit(c) == c \in {"0", "1", "2", "3", "4", "5", "6", "7", "8", "9"}

SetMin(S) == CHOOSE x \in S : \A y \in S : x <= y

SetMax(S) == CHOOSE x \in S : \A y \in S : x >= y

\* s.slice(from) with a 1-based position.
Drop(s, from) == SubSeq(s, from, Len(s))

\* s.trim()
Trim(s) ==
    LET ns == {j \in 1..Len(s) : ~IsSpace(s[j])}
    IN  IF ns = {} THEN <<>> ELSE SubSeq(s, SetMin(ns), SetMax(ns))

\* Whether p occurs in s at the 1-based position j.
MatchAt(s, p, j) == j >= 1 /\ j + Len(p) - 1 <= Len(s) /\ SubSeq(s, j, j + Len(p) - 1) = p

\* s.startsWith(p)
StartsWith(s, p) == MatchAt(s, p, 1)

\* The 1-based position of the first occurrence of p in s at or after from;
\* 0 when there is none.
IndexFrom(s, p, from) ==
    LET hits == {j \in from..Len(s) : MatchAt(s, p, j)}
    IN  IF hits = {} THEN 0 ELSE SetMin(hits)

\* s.includes(p)
Includes(s, p) == IndexFrom(s, p, 1) # 0

\* The position after the run of white space that starts at position from.
SkipSpaces(s, from) ==
    LET ns == {j \in from..Len(s) : ~IsSpace(s[j])}
    IN  IF ns = {} THEN Len(s) + 1 ELSE SetMin(ns)

UpperCase == <<"A", "B", "C", "D", "E", "F", "G", "H", "I", "J", "K", "L", "M",
               "N", "O", "P", "Q", "R", "S", "T", "U", "V", "W", "X", "Y", "Z">>

LowerCase == <<"a", "b", "c", "d", "e", "f", "g", "h", "i", "j", "k", "l", "m",
               "n", "o", "p", "q", "r", "s", "t", "u", "v", "w", "x", "y", "z">>

\* s.toLowerCase()
ToLowerCase(s) ==
    [j \in 1..Len(s) |->
        IF \E u \in 1..26 : UpperCase[u] = s[j]
        THEN LowerCase[CHOOSE u \in 1..26 : UpperCase[u] = s[j]]
        ELSE s[j]]

\* parts.join(sep), sep one character
RECURSIVE Join(_, _)
Join(parts, sep) ==
    IF Len(parts) = 0 THEN <<>>
    ELSE IF Len(parts) = 1 THEN parts[1]
    ELSE parts[1] \o <<sep>> \o Join(Tail(parts), sep)

\* lines[i], i counted from 0 as in the source
At(ls, i) == ls[i + 1]

\* The backtick character (U+0060), which a TLA+ string cannot hold.
BQ == "backtick"

BackTicks == <<BQ, BQ, BQ>>

\* /^```/.test(t)
FenceOpen(t) == StartsWith(t, BackTicks)

\* /^```\s*$/.test(t)
FenceClose(t) == FenceOpen(t) /\ SkipSpaces(t, 4) = Len(t) + 1

\* /^-{3,}\s*$/.test(line)
DashRule(line) ==
    LET d == {j \in 1..Len(line) : line[j] # "-"}
        n == IF d = {} THEN Len(line) ELSE SetMin(d) - 1
    IN  n >= 3 /\ SkipSpaces(line, n + 1) = Len(line) + 1

\* /^#{n}\s+/.test(t): n hash signs, then white space
Hashes(t, n) ==
    /\ Len(t) > n
    /\ \A j \in 1..n : t[j] = "#"
    /\ IsSpace(t[n + 1])

\* t.replace(/^#{n}\s+/, '') for a t the pattern matches
StripHashes(t, n) == Drop(t, SkipSpaces(t, n + 1))

\* /^[-*]\s+/.test(t)
BulletLine(t) == Len(t) >= 2 /\ t[1] \in {"-", "*"} /\ IsSpace(t[2])

\* t.replace(/^[-*]\s+/, '')
StripBullet(t) == IF BulletLine(t) THEN Drop(t, SkipSpaces(t, 2)) ELSE t

\* The number of digits t starts with.
DigitRun(t) ==
    LET nd == {j \in 1..Len(t) : ~IsDigit(t[j])}
    IN  IF nd = {} THEN Len(t) ELSE SetMin(nd) - 1

\* /^\d+\.\s+/.test(t)
NumberedLine(t) ==
    LET n == DigitRun(t)
    IN  n >= 1 /\ Len(t) >= n + 2 /\ t[n + 1] = "." /\ IsSpace(t[n + 2])

\* t.replace(/^\d+\.\s+/, '')
StripNumber(t) == IF NumberedLine(t) THEN Drop(t, SkipSpaces(t, DigitRun(t) + 2)) ELSE t

\* /^>\s+/.test(t)
QuoteLine(t) == Len(t) >= 2 /\ t[1] = ">" /\ IsSpace(t[2])

\* /^>\s*/.test(t)
QuoteCont(t) == Len(t) >= 1 /\ t[1] = ">"

\* t.replace(/^>\s*/, '')
StripQuote(t) == IF QuoteCont(t) THEN Drop(t, SkipSpaces(t, 2)) ELSE t

\* ------------------------------------------------------- content blocks

\* The level of a block that has none.
NoLevel == 0

\* The items of a block that has none.
NoItems == <<Undefined>>

\* A ContentBlock with only type and content set.  An optional record
\* (chartData, mindmapData) is the empty sequence when absent and a
\* one-element sequence when set.
Block(type, content) ==
    [type |-> type, content |-> content, items |-> NoItems, level |-> NoLevel,
     language |-> Undefined, alt |-> Undefined, src |-> Undefined,
     resolvedSrc |-> Undefined, chartData |-> <<>>, mindmapData |-> <<>>,
     imageQuery |-> Undefined, imageStyle |-> Undefined]

\* x || undefined
OrUndefined(x) == IF x = <<>> THEN Undefined ELSE x

\* ------------------------------------------------------------ directives

CommentOpen == <<"<", "!", "-", "-">>

CommentEnd == <<"-", "-", ">">>

NotesWord == <<"n", "o", "t", "e", "s", ":">>

BgWord == <<"b", "g", ":">>

\* t.startsWith('<!-- word') || t.startsWith('<!--word')
DirectiveLine(t, word) ==
    \/ StartsWith(t, CommentOpen \o <<" ">> \o word)
    \/ StartsWith(t, CommentOpen \o word)

\* t.replace(/<!--\s*word\s*/, ''): the leftmost match is removed
StripDirective(t, word) ==
    LET starts == {j \in 1..Len(t) :
                      MatchAt(t, CommentOpen, j) /\ MatchAt(t, word, SkipSpaces(t, j + 4))}
    IN  IF starts = {} THEN t
        ELSE LET j == SetMin(starts)
                 q == SkipSpaces(t, SkipSpaces(t, j + 4) + Len(word))
             IN  SubSeq(t, 1, j - 1) \o Drop(t, q)

\* t.replace(/\s*-->/, ''): the leftmost match starts at the white space
\* that runs up to the first -->
StripCommentEnd(t) ==
    LET q == IndexFrom(t, CommentEnd, 1)
    IN  IF q = 0 THEN t
        ELSE LET r == SetMin({j \in 1..q : \A m \in j..(q - 1) : IsSpace(t[m])})
             IN  SubSeq(t, 1, r - 1) \o Drop(t, q + 3)

\* The multi-line loop of extractNotes from line i on, text collected so far.
RECURSIVE NotesLoop(_, _, _)
NotesLoop(ls, i, text) ==
    IF i < Len(ls)
    THEN LET line == Trim(At(ls, i))
         IN  IF Includes(line, CommentEnd)
             THEN [text |-> Trim(text \o <<"\n">> \o Trim(StripCommentEnd(line))),
                   endIndex |-> i]
             ELSE NotesLoop(ls, i + 1, text \o <<"\n">> \o line)
    ELSE [text |-> Trim(text), endIndex |-> i - 1]

extractNotes(ls, startIndex) ==
    LET singleLine == Trim(At(ls, startIndex))
    IN  IF Includes(singleLine, CommentEnd)
        THEN [text |-> Trim(StripCommentEnd(StripDirective(singleLine, NotesWord))),
              endIndex |-> startIndex]
        ELSE NotesLoop(ls, startIndex + 1, Trim(StripDirective(singleLine, NotesWord)))

\* The background directive's value (parseSlide).
BackgroundOf(t) == Trim(StripCommentEnd(StripDirective(t, BgWord)))

\* ------------------------------------------------- chart and mind map

Digits == <<"0", "1", "2", "3", "4", "5", "6", "7", "8", "9">>

DigitValue(c) == (CHOOSE d \in 1..10 : Digits[d] = c) - 1

\* The integer a run of digits writes.
RECURSIVE Whole(_)
Whole(ds) ==
    IF Len(ds) = 0 THEN 0
    ELSE 10 * Whole(SubSeq(ds, 1, Len(ds) - 1)) + DigitValue(ds[Len(ds)])

\* The fraction digits of a number without the zeros that end them.
RECURSIVE Fraction(_)
Fraction(ds) ==
    IF Len(ds) > 0 /\ ds[Len(ds)] = "0" THEN Fraction(SubSeq(ds, 1, Len(ds) - 1)) ELSE ds

\* Whether s is digits, optionally followed by a point and digits.
IsNumber(s) ==
    LET n == DigitRun(s)
    IN  /\ n >= 1
        /\ \/ n = Len(s)
           \/ /\ n + 2 <= Len(s)
              /\ s[n + 1] = "."
              /\ \A j \in (n + 2)..Len(s) : IsDigit(s[j])

\* parseFloat(s) for such an s: the whole part and the fraction digits
ParseFloat(s) ==
    LET n == DigitRun(s)
    IN  [whole |-> Whole(SubSeq(s, 1, n)), frac |-> Fraction(Drop(s, n + 2))]

\* Whether t starts with word, letter case ignored.
StartsWithNoCase(t, word) ==
    Len(t) >= Len(word) /\ ToLowerCase(SubSeq(t, 1, Len(word))) = word

ChartKinds == {<<"b", "a", "r">>, <<"p", "i", "e">>, <<"l", "i", "n", "e">>}

TypeWord == <<"t", "y", "p", "e", ":">>

TitleWord == <<"t", "i", "t", "l", "e", ":">>

CenterWord == <<"c", "e", "n", "t", "e", "r", ":">>

\* The colon of a data row: the first colon after at least one character
\* with nothing but white space and a number behind it; 0 when there is
\* none.
DataColon(t) ==
    LET cs == {p \in 2..Len(t) :
                  t[p] = ":" /\ IsNumber(Drop(t, SkipSpaces(t, p + 1)))}
    IN  IF cs = {} THEN 0 ELSE SetMin(cs)

\* The pass of the loop of parseChartData with a row dropped when its
\* label is the label of an earlier row.
ChartLine_NoDuplicates(data, line) ==
    LET trimmed == Trim(line)
        kind    == ToLowerCase(Drop(trimmed, SkipSpaces(trimmed, 6)))
        p       == DataColon(trimmed)
    IN  IF trimmed = <<>> THEN data
        ELSE IF StartsWithNoCase(trimmed, TypeWord) /\ kind \in ChartKinds
        THEN [data EXCEPT !.type = kind]
        ELSE IF StartsWithNoCase(trimmed, TitleWord) /\ Len(trimmed) > 6
        THEN [data EXCEPT !.title = Trim(Drop(trimmed, 7))]
        ELSE IF p # 0 /\ ~\E n \in 1..Len(data.items) :
                              data.items[n].label = Trim(SubSeq(trimmed, 1, p - 1))
        THEN [data EXCEPT !.items =
                 Append(@, [label |-> Trim(SubSeq(trimmed, 1, p - 1)),
                            value |-> ParseFloat(Drop(trimmed, SkipSpaces(trimmed, p + 1)))])]
        ELSE data

\* One pass of the loop of parseChartData.
ChartLine(data, line) ==
    LET trimmed == Trim(line)
        kind    == ToLowerCase(Drop(trimmed, SkipSpaces(trimmed, 6)))
        p       == DataColon(trimmed)
    IN  IF trimmed = <<>> THEN data
        ELSE IF StartsWithNoCase(trimmed, TypeWord) /\ kind \in ChartKinds
        THEN [data EXCEPT !.type = kind]
        ELSE IF StartsWithNoCase(trimmed, TitleWord) /\ Len(trimmed) > 6
        THEN [data EXCEPT !.title = Trim(Drop(trimmed, 7))]
        ELSE IF p # 0
        THEN [data EXCEPT !.items =
                 Append(@, [label |-> Trim(SubSeq(trimmed, 1, p - 1)),
                            value |-> ParseFloat(Drop(trimmed, SkipSpaces(trimmed, p + 1)))])]
        ELSE data

RECURSIVE ChartLoop(_, _)
ChartLoop(ls, data) ==
    IF Len(ls) = 0 THEN data ELSE ChartLoop(Tail(ls), ChartLine(data, Head(ls)))

parseChartData(ls) ==
    ChartLoop(ls, [type |-> <<"b", "a", "r">>, title |-> Undefined, items |-> <<>>])

\* The pass of the loop of parseMindMapData with a child given to the first
\* branch.
MindMapLine_FirstBranch(data, line) ==
    LET trimmed == Trim(line)
        p       == SkipSpaces(line, 1)
        n       == Len(data.branches)
    IN  IF trimmed = <<>> THEN data
        ELSE IF StartsWithNoCase(trimmed, CenterWord) /\ Len(trimmed) > 7
        THEN [data EXCEPT !.center = Trim(Drop(trimmed, 8))]
        ELSE IF Len(line) >= 3 /\ line[1] = "-" /\ IsSpace(line[2])
        THEN [data EXCEPT !.branches =
                 Append(@, [label |-> Trim(Drop(line, 3)), children |-> <<>>])]
        ELSE IF p >= 3 /\ Len(line) >= p + 2 /\ line[p] = "-" /\ IsSpace(line[p + 1]) /\ n > 0
        THEN [data EXCEPT !.branches[1].children = Append(@, Trim(Drop(line, p + 2)))]
        ELSE data

\* The loop body with the dash of a branch allowed one space in.
MindMapLine_OneSpaceBranch(data, line) ==
    LET trimmed == Trim(line)
        p       == SkipSpaces(line, 1)
        n       == Len(data.branches)
    IN  IF trimmed = <<>> THEN data
        ELSE IF StartsWithNoCase(trimmed, CenterWord) /\ Len(trimmed) > 7
        THEN [data EXCEPT !.center = Trim(Drop(trimmed, 8))]
        ELSE IF p <= 2 /\ Len(line) >= p + 2 /\ line[p] = "-" /\ IsSpace(line[p + 1])
        THEN [data EXCEPT !.branches =
                 Append(@, [label |-> Trim(Drop(line, p + 2)), children |-> <<>>])]
        ELSE IF p >= 3 /\ Len(line) >= p + 2 /\ line[p] = "-" /\ IsSpace(line[p + 1]) /\ n > 0
        THEN [data EXCEPT !.branches[n].children = Append(@, Trim(Drop(line, p + 2)))]
        ELSE data

\* One pass of the loop of parseMindMapData.  The branch and child
\* patterns read the line untrimmed.
MindMapLine(data, line) ==
    LET trimmed == Trim(line)
        p       == SkipSpaces(line, 1)
        n       == Len(data.branches)
    IN  IF trimmed = <<>> THEN data
        ELSE IF StartsWithNoCase(trimmed, CenterWord) /\ Len(trimmed) > 7
        THEN [data EXCEPT !.center = Trim(Drop(trimmed, 8))]
        ELSE IF Len(line) >= 3 /\ line[1] = "-" /\ IsSpace(line[2])
        THEN [data EXCEPT !.branches =
                 Append(@, [label |-> Trim(Drop(line, 3)), children |-> <<>>])]
        ELSE IF p >= 3 /\ Len(line) >= p + 2 /\ line[p] = "-" /\ IsSpace(line[p + 1]) /\ n > 0
        THEN [data EXCEPT !.branches[n].children = Append(@, Trim(Drop(line, p + 2)))]
        ELSE data

RECURSIVE MindMapLoop(_, _)
MindMapLoop(ls, data) ==
    IF Len(ls) = 0 THEN data ELSE MindMapLoop(Tail(ls), MindMapLine(data, Head(ls)))

parseMindMapData(ls) ==
    MindMapLoop(ls, [center |-> <<"T", "o", "p", "i", "c">>, branches |-> <<>>])

\* ---------------------------------------------------------------- fences

\* The fence loops closing at every line that starts with three
\* backticks, labelled or not.
FenceStop_AnyFence(ls, from) ==
    LET closes == {j \in from..(Len(ls) - 1) : FenceOpen(Trim(At(ls, j)))}
    IN  IF closes = {} THEN Len(ls) ELSE SetMin(closes)

\* The index of the first closing fence at or after index from, or
\* lines.length when there is none: where the collecting loops of
\* parseCodeBlock, parseChartBlock and parseMindMapBlock stop.
FenceStop(ls, from) ==
    LET closes == {j \in from..(Len(ls) - 1) : FenceClose(Trim(At(ls, j)))}
    IN  IF closes = {} THEN Len(ls) ELSE SetMin(closes)

\* The lines those loops collect: lines[from .. stop-1].
FenceBody(ls, from) == SubSeq(ls, from + 1, FenceStop(ls, from))

\* firstLine.replace(/^```/, ''): the fence label, untrimmed
FenceLabel(t) == IF FenceOpen(t) THEN Drop(t, 4) ELSE t

\* parseCodeBlock with the language in lower case.
parseCodeBlock_Lowercased(ls, startIndex) ==
    LET stop == FenceStop(ls, startIndex + 1)
        blk  == [Block("code", Join(FenceBody(ls, startIndex + 1), "\n")) EXCEPT
                    !.language = OrUndefined(ToLowerCase(
                                     Trim(FenceLabel(Trim(At(ls, startIndex))))))]
    IN  [block |-> blk,
         endIndex |-> IF stop < Len(ls) THEN stop ELSE Len(ls) - 1]

\* parseCodeBlock taking the opening line only.
parseCodeBlock_OpeningLineOnly(ls, startIndex) ==
    [block |-> [Block("code", Join(FenceBody(ls, startIndex + 1), "\n")) EXCEPT
                   !.language = OrUndefined(Trim(FenceLabel(Trim(At(ls, startIndex)))))],
     endIndex |-> startIndex]

parseCodeBlock(ls, startIndex) ==
    LET stop == FenceStop(ls, startIndex + 1)
        blk  == [Block("code", Join(FenceBody(ls, startIndex + 1), "\n")) EXCEPT
                    !.language = OrUndefined(Trim(FenceLabel(Trim(At(ls, startIndex)))))]
    IN  [block |-> blk,
         endIndex |-> IF stop < Len(ls) THEN stop ELSE Len(ls) - 1]

parseChartBlock(ls, startIndex) ==
    LET dataLines == FenceBody(ls, startIndex + 1)
    IN  [block |-> [Block("chart", Join(dataLines, "\n")) EXCEPT
                       !.chartData = <<parseChartData(dataLines)>>],
         endIndex |-> FenceStop(ls, startIndex + 1)]

parseMindMapBlock(ls, startIndex) ==
    LET dataLines == FenceBody(ls, startIndex + 1)
    IN  [block |-> [Block("mindmap", Join(dataLines, "\n")) EXCEPT
                       !.mindmapData = <<parseMindMapData(dataLines)>>],
         endIndex |-> FenceStop(ls, startIndex + 1)]

\* ---------------------------------------------------------------- images

\* The tail every image pattern ends with, tried at position e: a closing
\* bracket, an opening parenthesis, characters other than a closing
\* parenthesis, and a closing parenthesis.
LinkTail(t, e) == MatchAt(t, <<"]", "(">>, e) /\ IndexFrom(t, <<")">>, e + 2) # 0

\* What the parentheses hold, for a tail that matches at e.
LinkTarget(t, e) == SubSeq(t, e + 2, IndexFrom(t, <<")">>, e + 2) - 1)

\* A directive image pattern: the prefix, white space (greedy), a text of
\* at least one character (lazy), the tail.  The match the regular
\* expression engine finds, as [ok, text, target]: it gives the white
\* space as many characters as some match allows, then the text as few.
DirectiveMatch(t, prefix) ==
    LET a     == Len(prefix) + 1
        w     == SkipSpaces(t, a) - a
        cands == {c \in 0..w : \E e \in (a + c + 1)..Len(t) : LinkTail(t, e)}
    IN  IF ~StartsWith(t, prefix) \/ cands = {}
        THEN [ok |-> FALSE, text |-> <<>>, target |-> <<>>]
        ELSE LET c == SetMax(cands)
                 e == SetMin({x \in (a + c + 1)..Len(t) : LinkTail(t, x)})
             IN  [ok |-> TRUE, text |-> SubSeq(t, a + c, e - 1), target |-> LinkTarget(t, e)]

StockPrefix == <<"!", "[", "s", "t", "o", "c", "k", ":">>

AiPrefix == <<"!", "[", "a", "i", "-">>

AiStyles == {<<"p", "h", "o", "t", "o">>,
             <<"i", "l", "l", "u", "s", "t", "r", "a", "t", "i", "o", "n">>,
             <<"d", "i", "a", "g", "r", "a", "m">>}

\* The stock photo directive of parseSlide.
StockMatch(t) == DirectiveMatch(t, StockPrefix)

\* The AI image directive of parseSlide, as [ok, style, text, target].
AiMatch(t) ==
    LET styles == {st \in AiStyles : DirectiveMatch(t, AiPrefix \o st \o <<":">>).ok}
    IN  IF styles = {}
        THEN [ok |-> FALSE, style |-> <<>>, text |-> <<>>, target |-> <<>>]
        ELSE LET st == CHOOSE x \in styles : TRUE
                 m  == DirectiveMatch(t, AiPrefix \o st \o <<":">>)
             IN  [ok |-> TRUE, style |-> st, text |-> m.text, target |-> m.target]

\* The regular image pattern of parseSlide, as [ok, alt, target]: the alt
\* text runs to the first closing bracket.
ImgMatch(t) ==
    LET e == IndexFrom(t, <<"]">>, 3)
    IN  IF StartsWith(t, <<"!", "[">>) /\ e # 0 /\ LinkTail(t, e)
        THEN [ok |-> TRUE, alt |-> SubSeq(t, 3, e - 1), target |-> LinkTarget(t, e)]
        ELSE [ok |-> FALSE, alt |-> <<>>, target |-> <<>>]

\* ------------------------------------------------- quotes, lists, text

\* The loop of parseBlockquote from index i on: [items, i at exit].
RECURSIVE QuoteLoop(_, _, _)
QuoteLoop(ls, i, acc) ==
    IF i < Len(ls) /\ QuoteCont(Trim(At(ls, i)))
    THEN QuoteLoop(ls, i + 1, Append(acc, StripQuote(Trim(At(ls, i)))))
    ELSE [items |-> acc, i |-> i]

parseBlockquote(ls, startIndex) ==
    LET r == QuoteLoop(ls, startIndex, <<>>)
    IN  [block |-> Block("quote", Join(r.items, "\n")), endIndex |-> r.i - 1]

\* /^\s+[-*]\s+/.test(line), on the untrimmed line
SubBulletLine(line) ==
    LET p == SkipSpaces(line, 1)
    IN  p > 1 /\ p + 1 <= Len(line) /\ line[p] \in {"-", "*"} /\ IsSpace(line[p + 1])

\* /^\s*[-*]\s+/.test(line), on the untrimmed line
AnyBulletLine(line) ==
    LET p == SkipSpaces(line, 1)
    IN  p + 1 <= Len(line) /\ line[p] \in {"-", "*"} /\ IsSpace(line[p + 1])

\* The loop of parseBulletList with the test for a sub-item made before the
\* test of the trimmed line.
RECURSIVE BulletLoop_SubItemFirst(_, _, _)
BulletLoop_SubItemFirst(ls, i, items) ==
    IF i < Len(ls)
    THEN LET trimmed == Trim(At(ls, i))
         IN  IF SubBulletLine(At(ls, i)) /\ Len(items) > 0
             THEN BulletLoop_SubItemFirst(ls, i + 1,
                                          Append(items, <<" ", " ">> \o StripBullet(trimmed)))
             ELSE IF BulletLine(trimmed)
             THEN BulletLoop_SubItemFirst(ls, i + 1, Append(items, StripBullet(trimmed)))
             ELSE IF trimmed = <<>> /\ i + 1 < Len(ls) /\ AnyBulletLine(At(ls, i + 1))
             THEN BulletLoop_SubItemFirst(ls, i + 1, items)
             ELSE [items |-> items, i |-> i]
    ELSE [items |-> items, i |-> i]

\* The loop of parseBulletList skipping a blank line whatever follows it.
RECURSIVE BulletLoop_AnyBlankSkipped(_, _, _)
BulletLoop_AnyBlankSkipped(ls, i, items) ==
    IF i < Len(ls)
    THEN LET trimmed == Trim(At(ls, i))
         IN  IF BulletLine(trimmed)
             THEN BulletLoop_AnyBlankSkipped(ls, i + 1, Append(items, StripBullet(trimmed)))
             ELSE IF SubBulletLine(At(ls, i)) /\ Len(items) > 0
             THEN BulletLoop_AnyBlankSkipped(ls, i + 1,
                                             Append(items, <<" ", " ">> \o StripBullet(trimmed)))
             ELSE IF trimmed = <<>> /\ i + 1 < Len(ls)
             THEN BulletLoop_AnyBlankSkipped(ls, i + 1, items)
             ELSE [items |-> items, i |-> i]
    ELSE [items |-> items, i |-> i]

\* The loop of parseBulletList from index i on: [items, i at exit].
RECURSIVE BulletLoop(_, _, _)
BulletLoop(ls, i, items) ==
    IF i < Len(ls)
    THEN LET trimmed == Trim(At(ls, i))
         IN  IF BulletLine(trimmed)
             THEN BulletLoop(ls, i + 1, Append(items, StripBullet(trimmed)))
             ELSE IF SubBulletLine(At(ls, i)) /\ Len(items) > 0
             THEN BulletLoop(ls, i + 1, Append(items, <<" ", " ">> \o StripBullet(trimmed)))
             ELSE IF trimmed = <<>> /\ i + 1 < Len(ls) /\ AnyBulletLine(At(ls, i + 1))
             THEN BulletLoop(ls, i + 1, items)
             ELSE [items |-> items, i |-> i]
    ELSE [items |-> items, i |-> i]

parseBulletList(ls, startIndex) ==
    LET r == BulletLoop(ls, startIndex, <<>>)
    IN  [block |-> [Block("bullets", Join(r.items, "\n")) EXCEPT !.items = r.items],
         endIndex |-> r.i - 1]

\* The loop of parseNumberedList from index i on: [items, i at exit].
RECURSIVE NumberedLoop(_, _, _)
NumberedLoop(ls, i, items) ==
    IF i < Len(ls)
    THEN LET trimmed == Trim(At(ls, i))
         IN  IF NumberedLine(trimmed)
             THEN NumberedLoop(ls, i + 1, Append(items, StripNumber(trimmed)))
             ELSE IF trimmed = <<>> /\ i + 1 < Len(ls) /\ NumberedLine(Trim(At(ls, i + 1)))
             THEN NumberedLoop(ls, i + 1, items)
             ELSE [items |-> items, i |-> i]
    ELSE [items |-> items, i |-> i]

parseNumberedList(ls, startIndex) ==
    LET r == NumberedLoop(ls, startIndex, <<>>)
    IN  [block |-> [Block("numbered", Join(r.items, "\n")) EXCEPT !.items = r.items],
         endIndex |-> r.i - 1]

\* The lines at which the loop of parseParagraph breaks.
ParagraphBreak(trimmed) ==
    \/ trimmed = <<>>
    \/ Hashes(trimmed, 1) \/ Hashes(trimmed, 2) \/ Hashes(trimmed, 3)
    \/ BulletLine(trimmed)
    \/ NumberedLine(trimmed)
    \/ FenceOpen(trimmed)
    \/ QuoteLine(trimmed)
    \/ StartsWith(trimmed, <<"!", "[">>)
    \/ StartsWith(trimmed, CommentOpen)
    \/ DashRule(trimmed)

\* The loop of parseParagraph from index i on: [items, i at exit].
RECURSIVE ParagraphLoop(_, _, _)
ParagraphLoop(ls, i, paraLines) ==
    IF i < Len(ls) /\ ~ParagraphBreak(Trim(At(ls, i)))
    THEN ParagraphLoop(ls, i + 1, Append(paraLines, Trim(At(ls, i))))
    ELSE [items |-> paraLines, i |-> i]

parseParagraph(ls, startIndex) ==
    LET r == ParagraphLoop(ls, startIndex, <<>>)
    IN  [block |-> Block("text", Join(r.items, " ")), endIndex |-> r.i - 1]

\* ---------------------------------------------------------------- layout

\* inferLayout answering two-column for a slide of two blocks.
inferLayout_TwoColumn(title, subtitle, blocks, isFirstSlide) ==
    LET hasOnlyImageBlock == Len(blocks) = 1 /\ blocks[1].type = "image"
    IN  IF hasOnlyImageBlock /\ Falsy(title) THEN "image-full"
        ELSE IF isFirstSlide /\ Len(blocks) = 0 THEN "title"
        ELSE IF ~Falsy(title) /\ Len(blocks) = 0 THEN "section"
        ELSE IF Len(blocks) = 2 THEN "two-column"
        ELSE "content"

\* inferLayout taking a directive image for an image.
inferLayout_AnyImage(title, subtitle, blocks, isFirstSlide) ==
    LET hasOnlyImageBlock ==
            Len(blocks) = 1 /\ blocks[1].type \in {"image", "stock-image", "ai-image"}
    IN  IF hasOnlyImageBlock /\ Falsy(title) THEN "image-full"
        ELSE IF isFirstSlide /\ Len(blocks) = 0 THEN "title"
        ELSE IF ~Falsy(title) /\ Len(blocks) = 0 THEN "section"
        ELSE "content"

\* inferLayout giving the first slide the title layout whatever it holds.
inferLayout_FirstIsTitle(title, subtitle, blocks, isFirstSlide) ==
    LET hasOnlyImageBlock == Len(blocks) = 1 /\ blocks[1].type = "image"
    IN  IF hasOnlyImageBlock /\ Falsy(title) THEN "image-full"
        ELSE IF isFirstSlide THEN "title"
        ELSE IF ~Falsy(title) /\ Len(blocks) = 0 THEN "section"
        ELSE "content"

inferLayout(title, subtitle, blocks, isFirstSlide) ==
    LET hasOnlyImageBlock == Len(blocks) = 1 /\ blocks[1].type = "image"
    IN  IF hasOnlyImageBlock /\ Falsy(title) THEN "image-full"
        ELSE IF isFirstSlide /\ Len(blocks) = 0 THEN "title"
        ELSE IF ~Falsy(title) /\ Len(blocks) = 0 THEN "section"
        ELSE "content"

\* ----------------------------------------------------------- frontmatter

ThreeDashes == <<"-", "-", "-">>

Wide == <<"1", "6", ":", "9">>

Narrow == <<"4", ":", "3">>

\* The metadata parseFrontmatter starts from.
DefaultMeta ==
    [title |-> Undefined, author |-> Undefined, date |-> Undefined,
     theme |-> Undefined, aspectRatio |-> Wide, accentColor |-> Undefined,
     fontFamily |-> Undefined, style |-> Undefined]

IsQuote(c) == c \in {"\"", "'"}

\* v.replace(/^["']|["']$/g, ''): one leading and one trailing quote go
StripQuotes(v) ==
    LET a == IF Len(v) > 0 /\ IsQuote(v[1]) THEN Tail(v) ELSE v
    IN  IF Len(a) > 0 /\ IsQuote(a[Len(a)]) THEN SubSeq(a, 1, Len(a) - 1) ELSE a

\* The switch with the style case taken for every key no case names.
SetKey_DefaultIsStyle(meta, key, value) ==
    CASE key = <<"t", "i", "t", "l", "e">> -> [meta EXCEPT !.title = value]
      [] key = <<"a", "u", "t", "h", "o", "r">> -> [meta EXCEPT !.author = value]
      [] key = <<"d", "a", "t", "e">> -> [meta EXCEPT !.date = value]
      [] key = <<"t", "h", "e", "m", "e">> -> [meta EXCEPT !.theme = value]
      [] key \in {<<"a", "s", "p", "e", "c", "t", "-", "r", "a", "t", "i", "o">>,
                  <<"a", "s", "p", "e", "c", "t", "r", "a", "t", "i", "o">>} ->
            IF value = Narrow \/ value = Wide
            THEN [meta EXCEPT !.aspectRatio = value] ELSE meta
      [] key \in {<<"a", "c", "c", "e", "n", "t", "-", "c", "o", "l", "o", "r">>,
                  <<"a", "c", "c", "e", "n", "t", "c", "o", "l", "o", "r">>,
                  <<"c", "o", "l", "o", "r">>} -> [meta EXCEPT !.accentColor = value]
      [] key \in {<<"f", "o", "n", "t">>,
                  <<"f", "o", "n", "t", "-", "f", "a", "m", "i", "l", "y">>,
                  <<"f", "o", "n", "t", "f", "a", "m", "i", "l", "y">>} ->
            [meta EXCEPT !.fontFamily = value]
      [] key = <<"s", "t", "y", "l", "e">> -> [meta EXCEPT !.style = value]
      [] OTHER -> [meta EXCEPT !.style = value]

\* The switch without the test of the value of aspect-ratio.
SetKey_AnyRatio(meta, key, value) ==
    CASE key = <<"t", "i", "t", "l", "e">> -> [meta EXCEPT !.title = value]
      [] key = <<"a", "u", "t", "h", "o", "r">> -> [meta EXCEPT !.author = value]
      [] key = <<"d", "a", "t", "e">> -> [meta EXCEPT !.date = value]
      [] key = <<"t", "h", "e", "m", "e">> -> [meta EXCEPT !.theme = value]
      [] key \in {<<"a", "s", "p", "e", "c", "t", "-", "r", "a", "t", "i", "o">>,
                  <<"a", "s", "p", "e", "c", "t", "r", "a", "t", "i", "o">>} ->
            [meta EXCEPT !.aspectRatio = value]
      [] key \in {<<"a", "c", "c", "e", "n", "t", "-", "c", "o", "l", "o", "r">>,
                  <<"a", "c", "c", "e", "n", "t", "c", "o", "l", "o", "r">>,
                  <<"c", "o", "l", "o", "r">>} -> [meta EXCEPT !.accentColor = value]
      [] key \in {<<"f", "o", "n", "t">>,
                  <<"f", "o", "n", "t", "-", "f", "a", "m", "i", "l", "y">>,
                  <<"f", "o", "n", "t", "f", "a", "m", "i", "l", "y">>} ->
            [meta EXCEPT !.fontFamily = value]
      [] key = <<"s", "t", "y", "l", "e">> -> [meta EXCEPT !.style = value]
      [] OTHER -> meta

\* The switch of parseFrontmatter on one key.
SetKey(meta, key, value) ==
    CASE key = <<"t", "i", "t", "l", "e">> -> [meta EXCEPT !.title = value]
      [] key = <<"a", "u", "t", "h", "o", "r">> -> [meta EXCEPT !.author = value]
      [] key = <<"d", "a", "t", "e">> -> [meta EXCEPT !.date = value]
      [] key = <<"t", "h", "e", "m", "e">> -> [meta EXCEPT !.theme = value]
      [] key \in {<<"a", "s", "p", "e", "c", "t", "-", "r", "a", "t", "i", "o">>,
                  <<"a", "s", "p", "e", "c", "t", "r", "a", "t", "i", "o">>} ->
            IF value = Narrow \/ value = Wide
            THEN [meta EXCEPT !.aspectRatio = value] ELSE meta
      [] key \in {<<"a", "c", "c", "e", "n", "t", "-", "c", "o", "l", "o", "r">>,
                  <<"a", "c", "c", "e", "n", "t", "c", "o", "l", "o", "r">>,
                  <<"c", "o", "l", "o", "r">>} -> [meta EXCEPT !.accentColor = value]
      [] key \in {<<"f", "o", "n", "t">>,
                  <<"f", "o", "n", "t", "-", "f", "a", "m", "i", "l", "y">>,
                  <<"f", "o", "n", "t", "f", "a", "m", "i", "l", "y">>} ->
            [meta EXCEPT !.fontFamily = value]
      [] key = <<"s", "t", "y", "l", "e">> -> [meta EXCEPT !.style = value]
      [] OTHER -> meta

\* One pass of the key: value loop of parseFrontmatter over lines[i].
FrontmatterLine(meta, raw) ==
    LET line     == Trim(raw)
        colonIdx == IndexFrom(line, <<":">>, 1)
    IN  IF line = <<>> \/ StartsWith(line, <<"#">>) \/ colonIdx = 0 THEN meta
        ELSE SetKey(meta,
                    ToLowerCase(Trim(SubSeq(line, 1, colonIdx - 1))),
                    StripQuotes(Trim(Drop(line, colonIdx + 1))))

\* The key: value loop of parseFrontmatter over lines[i .. endIndex-1].
RECURSIVE FrontmatterLoop(_, _, _, _)
FrontmatterLoop(ls, i, endIndex, meta) ==
    IF i < endIndex
    THEN FrontmatterLoop(ls, i + 1, endIndex, FrontmatterLine(meta, At(ls, i)))
    ELSE meta

\* The index of the closing rule, -1 when there is none.
ClosingRule(ls) ==
    LET found == {j \in 1..(Len(ls) - 1) : Trim(At(ls, j)) = ThreeDashes}
    IN  IF found = {} THEN -1 ELSE SetMin(found)

\* parseFrontmatter reading an opening rule that nothing closes as a
\* frontmatter that runs to the end of the input.
parseFrontmatter_Unclosed(ls) ==
    IF Len(ls) < 2 \/ Trim(At(ls, 0)) # ThreeDashes
    THEN [meta |-> DefaultMeta, bodyStart |-> 0]
    ELSE IF ClosingRule(ls) = -1
    THEN [meta |-> FrontmatterLoop(ls, 1, Len(ls), DefaultMeta), bodyStart |-> Len(ls)]
    ELSE [meta |-> FrontmatterLoop(ls, 1, ClosingRule(ls), DefaultMeta),
          bodyStart |-> ClosingRule(ls) + 1]

parseFrontmatter(ls) ==
    IF Len(ls) < 2 \/ Trim(At(ls, 0)) # ThreeDashes
    THEN [meta |-> DefaultMeta, bodyStart |-> 0]
    ELSE IF ClosingRule(ls) = -1
    THEN [meta |-> DefaultMeta, bodyStart |-> 0]
    ELSE [meta |-> FrontmatterLoop(ls, 1, ClosingRule(ls), DefaultMeta),
          bodyStart |-> ClosingRule(ls) + 1]

hasFrontmatterTitle(meta) == ~Falsy(meta.title)

\* ------------------------------------------------------------- splitting

isInsideCodeBlock(ls) ==
    Cardinality({j \in 1..Len(ls) : FenceOpen(Trim(ls[j]))}) % 2 = 1

\* chunk.some(line => line.trim() !== '')
SomeNonBlank(chunk) == \E j \in 1..Len(chunk) : Trim(chunk[j]) # <<>>

\* The filter dropping only the chunks with no line at all.
FilterChunks_NonEmpty(cs) == SelectSeq(cs, LAMBDA chunk : Len(chunk) > 0)

\* chunks.filter(chunk => chunk.some(...))
FilterChunks(cs) == SelectSeq(cs, SomeNonBlank)

\* ------------------------------------------------------------ dispatcher

\* The locals of parseSlide before its loop.
EmptySlide ==
    [title |-> Undefined, subtitle |-> Undefined, notes |-> Undefined,
     background |-> Undefined, blocks |-> <<>>]

\* A sub-parser's result taken up by the loop: its block is pushed and the
\* cursor moves past its endIndex.
Consumed(sl, r) == [sl |-> [sl EXCEPT !.blocks = Append(@, r.block)], i |-> r.endIndex + 1]

\* A one-line construct: the locals as changed, the cursor one further.
OneLine(sl, i) == [sl |-> sl, i |-> i + 1]

Push(sl, b) == [sl EXCEPT !.blocks = Append(@, b)]

\* The fence branch of the loop of parseSlide.
FenceStep(ls, i, sl, trimmed) ==
    LET lang == ToLowerCase(Trim(FenceLabel(trimmed)))
    IN  IF lang = <<"c", "h", "a", "r", "t">> THEN Consumed(sl, parseChartBlock(ls, i))
        ELSE IF lang = <<"m", "i", "n", "d", "m", "a", "p">>
        THEN Consumed(sl, parseMindMapBlock(ls, i))
        ELSE Consumed(sl, parseCodeBlock(ls, i))

\* The image branches with the regular pattern tried before the two
\* directive patterns.
ImageStep_GenericFirst(i, sl, trimmed) ==
    LET stockMatch == StockMatch(trimmed)
        aiMatch    == AiMatch(trimmed)
        imgMatch   == ImgMatch(trimmed)
    IN  IF imgMatch.ok
        THEN OneLine(Push(sl, [Block("image", imgMatch.target) EXCEPT
                                  !.alt = imgMatch.alt,
                                  !.src = OrUndefined(imgMatch.target)]), i)
        ELSE IF stockMatch.ok
        THEN OneLine(Push(sl, [Block("stock-image", stockMatch.text) EXCEPT
                                  !.imageQuery = stockMatch.text,
                                  !.alt = stockMatch.text,
                                  !.src = OrUndefined(stockMatch.target)]), i)
        ELSE OneLine(Push(sl, [Block("ai-image", aiMatch.text) EXCEPT
                                  !.imageStyle = aiMatch.style,
                                  !.alt = aiMatch.text]), i)

\* The image branches of the loop of parseSlide, for a line one of the
\* three patterns matches.
ImageStep(i, sl, trimmed) ==
    LET stockMatch == StockMatch(trimmed)
        aiMatch    == AiMatch(trimmed)
        imgMatch   == ImgMatch(trimmed)
    IN  IF stockMatch.ok
        THEN OneLine(Push(sl, [Block("stock-image", stockMatch.text) EXCEPT
                                  !.imageQuery = stockMatch.text,
                                  !.alt = stockMatch.text,
                                  !.src = OrUndefined(stockMatch.target)]), i)
        ELSE IF aiMatch.ok
        THEN OneLine(Push(sl, [Block("ai-image", aiMatch.text) EXCEPT
                                  !.imageStyle = aiMatch.style,
                                  !.alt = aiMatch.text]), i)
        ELSE OneLine(Push(sl, [Block("image", imgMatch.target) EXCEPT
                                  !.alt = imgMatch.alt,
                                  !.src = OrUndefined(imgMatch.target)]), i)

\* The loop body with every level-2 heading after the title taken for the
\* subtitle.
DispatchLine_SubtitleOverwritten(ls, i, sl) ==
    LET trimmed == Trim(At(ls, i))
    IN  IF trimmed = <<>> THEN OneLine(sl, i)
        ELSE IF DirectiveLine(trimmed, NotesWord)
        THEN LET noteContent == extractNotes(ls, i)
             IN  [sl |-> [sl EXCEPT !.notes = noteContent.text], i |-> noteContent.endIndex + 1]
        ELSE IF DirectiveLine(trimmed, BgWord)
        THEN OneLine([sl EXCEPT !.background = BackgroundOf(trimmed)], i)
        ELSE IF Hashes(trimmed, 1) /\ Falsy(sl.title)
        THEN OneLine([sl EXCEPT !.title = StripHashes(trimmed, 1)], i)
        ELSE IF Hashes(trimmed, 1) /\ ~Falsy(sl.title)
        THEN OneLine(Push(sl, [Block("heading", StripHashes(trimmed, 1)) EXCEPT !.level = 1]), i)
        ELSE IF Hashes(trimmed, 2)
        THEN IF Falsy(sl.title) THEN OneLine([sl EXCEPT !.title = StripHashes(trimmed, 2)], i)
             ELSE OneLine([sl EXCEPT !.subtitle = StripHashes(trimmed, 2)], i)
        ELSE IF Hashes(trimmed, 3)
        THEN OneLine(Push(sl, [Block("subheading", StripHashes(trimmed, 3)) EXCEPT
                                  !.level = 3]), i)
        ELSE IF FenceOpen(trimmed) THEN FenceStep(ls, i, sl, trimmed)
        ELSE IF StockMatch(trimmed).ok \/ AiMatch(trimmed).ok \/ ImgMatch(trimmed).ok
        THEN ImageStep(i, sl, trimmed)
        ELSE IF QuoteLine(trimmed) THEN Consumed(sl, parseBlockquote(ls, i))
        ELSE IF BulletLine(trimmed) THEN Consumed(sl, parseBulletList(ls, i))
        ELSE IF NumberedLine(trimmed) THEN Consumed(sl, parseNumberedList(ls, i))
        ELSE Consumed(sl, parseParagraph(ls, i))

\* One pass of the loop of parseSlide at cursor i: the locals and the
\* cursor after it.
DispatchLine(ls, i, sl) ==
    LET trimmed == Trim(At(ls, i))
    IN  IF trimmed = <<>> THEN OneLine(sl, i)
        ELSE IF DirectiveLine(trimmed, NotesWord)
        THEN LET noteContent == extractNotes(ls, i)
             IN  [sl |-> [sl EXCEPT !.notes = noteContent.text], i |-> noteContent.endIndex + 1]
        ELSE IF DirectiveLine(trimmed, BgWord)
        THEN OneLine([sl EXCEPT !.background = BackgroundOf(trimmed)], i)
        ELSE IF Hashes(trimmed, 1) /\ Falsy(sl.title)
        THEN OneLine([sl EXCEPT !.title = StripHashes(trimmed, 1)], i)
        ELSE IF Hashes(trimmed, 1) /\ ~Falsy(sl.title)
        THEN OneLine(Push(sl, [Block("heading", StripHashes(trimmed, 1)) EXCEPT !.level = 1]), i)
        ELSE IF Hashes(trimmed, 2)
        THEN IF Falsy(sl.title) THEN OneLine([sl EXCEPT !.title = StripHashes(trimmed, 2)], i)
             ELSE IF Falsy(sl.subtitle)
             THEN OneLine([sl EXCEPT !.subtitle = StripHashes(trimmed, 2)], i)
             ELSE OneLine(Push(sl, [Block("subheading", StripHashes(trimmed, 2)) EXCEPT
                                       !.level = 2]), i)
        ELSE IF Hashes(trimmed, 3)
        THEN OneLine(Push(sl, [Block("subheading", StripHashes(trimmed, 3)) EXCEPT
                                  !.level = 3]), i)
        ELSE IF FenceOpen(trimmed) THEN FenceStep(ls, i, sl, trimmed)
        ELSE IF StockMatch(trimmed).ok \/ AiMatch(trimmed).ok \/ ImgMatch(trimmed).ok
        THEN ImageStep(i, sl, trimmed)
        ELSE IF QuoteLine(trimmed) THEN Consumed(sl, parseBlockquote(ls, i))
        ELSE IF BulletLine(trimmed) THEN Consumed(sl, parseBulletList(ls, i))
        ELSE IF NumberedLine(trimmed) THEN Consumed(sl, parseNumberedList(ls, i))
        ELSE Consumed(sl, parseParagraph(ls, i))

\* The index the loop of parseSlide starts at: past the leading blank lines.
SkipLeadingBlank(ls) ==
    LET nb == {j \in 0..(Len(ls) - 1) : Trim(At(ls, j)) # <<>>}
    IN  IF nb = {} THEN Len(ls) ELSE SetMin(nb)

\* The Slide parseSlide returns from its locals.
MakeSlide(sl, isFirstSlide) ==
    [layout |-> inferLayout(sl.title, sl.subtitle, sl.blocks, isFirstSlide),
     title |-> sl.title, subtitle |-> sl.subtitle, blocks |-> sl.blocks,
     notes |-> sl.notes, background |-> sl.background]

\* The back-fill without its test of the title the metadata has.
BackFill_Always(meta, slides) ==
    IF Len(slides) > 0 /\ ~Falsy(slides[1].title)
    THEN [meta EXCEPT !.title = slides[1].title]
    ELSE meta

\* The title back-fill of parse.
BackFill(meta, slides) ==
    IF Falsy(meta.title) /\ Len(slides) > 0 /\ ~Falsy(slides[1].title)
    THEN [meta EXCEPT !.title = slides[1].title]
    ELSE meta

\* ----------------------------------------------------------------- state

VARIABLES
    lines,        \* input.split('\n')
    pc,           \* where parse is: start, split, slides, dispatch, done, crashed
    meta,         \* the metadata
    bodyStart,    \* the index of the first body line
    splitIndex,   \* splitIntoSlides: its loop index
    chunks,       \* splitIntoSlides: the chunks closed so far
    current,      \* splitIntoSlides: the chunk being collected
    slideChunks,  \* what splitIntoSlides returned
    k,            \* the index of the chunk parseSlide works on
    i,            \* parseSlide: the cursor
    slide,        \* parseSlide: title, subtitle, notes, background, blocks
    slides,       \* the slides built so far
    handler       \* create_presentation: its arguments, environment and loop position

vars == <<lines, pc, meta, bodyStart, splitIndex, chunks, current, slideChunks, k, i,
          slide, slides, handler>>

\* The locals of the create_presentation handler before it is entered.
NoHandler ==
    [theme |-> <<>>, pixabayKey |-> FALSE, geminiKey |-> FALSE, slideIndex |-> 0,
     blockIndex |-> 0, imageIndex |-> 0]

\* Every input of at most MaxLines lines, each drawn from pool.  A string
\* always splits into at least one line.
Inputs(pool) == UNION {[1..n -> pool] : n \in 1..MaxLines}

\* The state when parse is entered with the given lines.
Start(input) ==
    /\ lines = input
    /\ pc = "start"
    /\ meta = DefaultMeta
    /\ bodyStart = 0
    /\ splitIndex = 0
    /\ chunks = <<>>
    /\ current = <<>>
    /\ slideChunks = <<>>
    /\ k = 0
    /\ i = 0
    /\ slide = EmptySlide
    /\ slides = <<>>
    /\ handler = NoHandler

\* parse calls parseFrontmatter.
ParseFrontmatter ==
    /\ pc = "start"
    /\ meta' = parseFrontmatter(lines).meta
    /\ bodyStart' = parseFrontmatter(lines).bodyStart
    /\ splitIndex' = parseFrontmatter(lines).bodyStart
    /\ pc' = "split"
    /\ UNCHANGED <<lines, chunks, current, slideChunks, k, i, slide, slides>>
    /\ UNCHANGED handler

\* Whether splitIntoSlides takes lines[splitIndex] for a separator.
IsSeparator(line, cur) == DashRule(line) /\ ~isInsideCodeBlock(cur)

\* One pass of the loop of splitIntoSlides.
SplitStep ==
    /\ pc = "split"
    /\ splitIndex < Len(lines)
    /\ LET line == At(lines, splitIndex)
       IN  IF IsSeparator(line, current)
           THEN IF Len(current) > 0 \/ Len(chunks) = 0
                THEN chunks' = Append(chunks, current) /\ current' = <<>>
                ELSE UNCHANGED <<chunks, current>>
           ELSE current' = Append(current, line) /\ UNCHANGED chunks
    /\ splitIndex' = splitIndex + 1
    /\ UNCHANGED <<lines, pc, meta, bodyStart, slideChunks, k, i, slide, slides>>
    /\ UNCHANGED handler

\* splitIntoSlides after its loop: the last chunk, the filter, the return.
SplitFinish ==
    /\ pc = "split"
    /\ ~(splitIndex < Len(lines))
    /\ LET all == IF Len(current) > 0 THEN Append(chunks, current) ELSE chunks
       IN  /\ chunks' = all
           /\ slideChunks' = FilterChunks(all)
    /\ k' = 0
    /\ pc' = "slides"
    /\ UNCHANGED <<lines, meta, bodyStart, splitIndex, current, i, slide, slides>>
    /\ UNCHANGED handler

\* slideChunks.map enters parseSlide for chunk k.
BeginSlide ==
    /\ pc = "slides"
    /\ k < Len(slideChunks)
    /\ slide' = EmptySlide
    /\ i' = SkipLeadingBlank(At(slideChunks, k))
    /\ pc' = "dispatch"
    /\ UNCHANGED <<lines, meta, bodyStart, splitIndex, chunks, current, slideChunks, k, slides>>
    /\ UNCHANGED handler

\* One pass of the loop of parseSlide.  A slide whose block list outgrows
\* the heap ends the run.
DispatchStep ==
    /\ pc = "dispatch"
    /\ i < Len(At(slideChunks, k))
    /\ LET r == DispatchLine(At(slideChunks, k), i, slide)
       IN  IF Len(r.sl.blocks) > MaxBlocks
           THEN pc' = "crashed" /\ UNCHANGED <<i, slide>>
           ELSE pc' = pc /\ i' = r.i /\ slide' = r.sl
    /\ UNCHANGED <<lines, meta, bodyStart, splitIndex, chunks, current, slideChunks, k, slides>>
    /\ UNCHANGED handler

\* parseSlide after its loop: the layout, the return.
EndSlide ==
    /\ pc = "dispatch"
    /\ ~(i < Len(At(slideChunks, k)))
    /\ slides' = Append(slides, MakeSlide(slide, k = 0 /\ ~hasFrontmatterTitle(meta)))
    /\ k' = k + 1
    /\ pc' = "slides"
    /\ UNCHANGED <<lines, meta, bodyStart, splitIndex, chunks, current, slideChunks, i, slide>>
    /\ UNCHANGED handler

\* parse after the map: the title back-fill, the return.
Assemble ==
    /\ pc = "slides"
    /\ k = Len(slideChunks)
    /\ meta' = BackFill(meta, slides)
    /\ pc' = "done"
    /\ UNCHANGED <<lines, bodyStart, splitIndex, chunks, current, slideChunks, k, i, slide,
                   slides>>
    /\ UNCHANGED handler

Next ==
    \/ ParseFrontmatter
    \/ SplitStep
    \/ SplitFinish
    \/ BeginSlide
    \/ DispatchStep
    \/ EndSlide
    \/ Assemble

\* ---------------------------------------------------------------- themes

\* The fields of a theme that getTheme reads or writes.  A literal of the
\* theme table is held as one unit of text; widths and heights are in
\* thousandths of an inch.
defaultTheme ==
    [name |-> <<"d", "e", "f", "a", "u", "l", "t">>,
     primary |-> <<"#2563EB">>,
     heading |-> <<"'Inter', 'Segoe UI', system-ui, -apple-system, sans-serif">>,
     body |-> <<"'Inter', 'Segoe UI', system-ui, -apple-system, sans-serif">>,
     slideWidth |-> 13333, slideHeight |-> 7500]

darkTheme ==
    [name |-> <<"d", "a", "r", "k">>,
     primary |-> <<"#60A5FA">>,
     heading |-> <<"'Inter', 'Segoe UI', system-ui, -apple-system, sans-serif">>,
     body |-> <<"'Inter', 'Segoe UI', system-ui, -apple-system, sans-serif">>,
     slideWidth |-> 13333, slideHeight |-> 7500]

minimalTheme ==
    [name |-> <<"m", "i", "n", "i", "m", "a", "l">>,
     primary |-> <<"#18181B">>,
     heading |-> <<"'Georgia', 'Times New Roman', serif">>,
     body |-> <<"'Inter', 'Segoe UI', system-ui, -apple-system, sans-serif">>,
     slideWidth |-> 13333, slideHeight |-> 7500]

corporateTheme ==
    [name |-> <<"c", "o", "r", "p", "o", "r", "a", "t", "e">>,
     primary |-> <<"#1D4ED8">>,
     heading |-> <<"'Calibri', 'Segoe UI', system-ui, sans-serif">>,
     body |-> <<"'Calibri', 'Segoe UI', system-ui, sans-serif">>,
     slideWidth |-> 13333, slideHeight |-> 7500]

\* The own properties of the themes object.
themes == {defaultTheme, darkTheme, minimalTheme, corporateTheme}

\* The names under which the themes object, an object literal, inherits a
\* function from Object.prototype.
InheritedFunctions ==
    {<<"c", "o", "n", "s", "t", "r", "u", "c", "t", "o", "r">>,
     <<"t", "o", "S", "t", "r", "i", "n", "g">>,
     <<"v", "a", "l", "u", "e", "O", "f">>,
     <<"t", "o", "L", "o", "c", "a", "l", "e", "S", "t", "r", "i", "n", "g">>,
     <<"h", "a", "s", "O", "w", "n", "P", "r", "o", "p", "e", "r", "t", "y">>,
     <<"i", "s", "P", "r", "o", "t", "o", "t", "y", "p", "e", "O", "f">>,
     <<"p", "r", "o", "p", "e", "r", "t", "y", "I", "s", "E", "n", "u", "m", "e", "r", "a",
       "b", "l", "e">>}

\* The name under which it gives its prototype, an object with no
\* property that JSON.stringify writes.
ProtoName == <<"_", "_", "p", "r", "o", "t", "o", "_", "_">>

\* A theme copied from an object with no properties.
NoTheme ==
    [name |-> Undefined, primary |-> Undefined, heading |-> Undefined, body |-> Undefined,
     slideWidth |-> 0, slideHeight |-> 0]

\* JSON.parse(JSON.stringify(themes[themeName] || defaultTheme)), as <<>>
\* when it throws and <<copy>> otherwise: the copy of a theme; of the
\* prototype, an empty object; of a function, JSON.stringify gives
\* undefined and JSON.parse throws.
BaseCopy(themeName) ==
    IF \E t \in themes : t.name = themeName
    THEN <<CHOOSE t \in themes : t.name = themeName>>
    ELSE IF themeName \in InheritedFunctions THEN <<>>
    ELSE IF themeName = ProtoName THEN <<NoTheme>>
    ELSE <<defaultTheme>>

\* getTheme(meta), as <<>> when it throws and <<theme>> otherwise.  Writing
\* colors.primary or fonts.heading of the empty object throws.
getTheme(m) ==
    LET themeName == IF ~Falsy(m.theme) THEN m.theme
                     ELSE IF ~Falsy(m.style) THEN m.style
                     ELSE <<"d", "e", "f", "a", "u", "l", "t">>
        copied    == BaseCopy(themeName)
        base      == copied[1]
        quoted(f) == <<"'">> \o f \o <<"'", ",", " ">>
        coloured  == IF Falsy(m.accentColor) THEN base
                     ELSE [base EXCEPT !.primary = m.accentColor]
        fonted    == IF Falsy(m.fontFamily) THEN coloured
                     ELSE [coloured EXCEPT !.heading = quoted(m.fontFamily) \o @,
                                           !.body = quoted(m.fontFamily) \o @]
    IN  IF copied = <<>> THEN <<>>
        ELSE IF base = NoTheme /\ (~Falsy(m.accentColor) \/ ~Falsy(m.fontFamily)) THEN <<>>
        ELSE IF m.aspectRatio = <<"4", ":", "3">>
             THEN <<[fonted EXCEPT !.slideWidth = 10000, !.slideHeight = 7500]>>
             ELSE <<fonted>>

\* -------------------------------------------------- create_presentation

ThemeDefault == <<"d", "e", "f", "a", "u", "l", "t">>

ThemeDark == <<"d", "a", "r", "k">>

\* The theme argument: left out (the schema then gives default), a theme
\* name, or the empty string.
ThemeArgs == {ThemeDefault, ThemeDark, <<>>}

\* The index of an image written in decimal, for an index below ten.
IndexText(n) == <<Digits[n + 1]>>

\* What the search and the download of a stock photo end in: a photo
\* saved, no result, an error.
StockOutcomes == {"saved", "none", "throws"}

\* What the generation of an image ends in: an image saved, an error.
AiOutcomes == {"saved", "throws"}

\* resolveStockImage writing the path to src.
resolveStockImage_WritesSrc(block, index, hasKey, outcome) ==
    IF hasKey /\ outcome = "saved"
    THEN [block EXCEPT !.src = <<"s", "t", "o", "c", "k", "-">> \o IndexText(index)
                                   \o <<".", "j", "p", "g">>]
    ELSE block

\* The block after resolveStockImage(block, imageDir, index); the path is
\* written without its directory.
resolveStockImage(block, index, hasKey, outcome) ==
    IF hasKey /\ outcome = "saved"
    THEN [block EXCEPT !.resolvedSrc = <<"s", "t", "o", "c", "k", "-">> \o IndexText(index)
                                           \o <<".", "j", "p", "g">>]
    ELSE block

\* The block after resolveAIImage(block, imageDir, index).
resolveAIImage(block, index, hasKey, outcome) ==
    IF hasKey /\ outcome = "saved"
    THEN [block EXCEPT !.resolvedSrc = <<"a", "i", "-">> \o IndexText(index)
                                           \o <<".", "p", "n", "g">>]
    ELSE block

\* The handler from the return of parse to the call of resolveImages: the
\* theme override, the output path, the output directory.
ApplyTheme ==
    /\ pc = "done"
    /\ \E theme \in ThemeArgs, pixabayKey \in BOOLEAN, geminiKey \in BOOLEAN,
          dirMade \in BOOLEAN :
           /\ meta' = IF theme # <<>> /\ theme # ThemeDefault
                      THEN [meta EXCEPT !.theme = theme] ELSE meta
           /\ handler' = [theme |-> theme, pixabayKey |-> pixabayKey,
                          geminiKey |-> geminiKey, slideIndex |-> 0, blockIndex |-> 0,
                          imageIndex |-> 0]
           /\ pc' = IF dirMade THEN "resolve" ELSE "error"
    /\ UNCHANGED <<lines, bodyStart, splitIndex, chunks, current, slideChunks, k, i, slide,
                   slides>>

\* resolveImages without the catch of its resolvers: an error thrown by
\* the search, the download or the generation reaches the handler's own
\* catch, which returns the error.
ResolveBlock_Uncaught ==
    /\ pc = "resolve"
    /\ handler.slideIndex < Len(slides)
    /\ handler.blockIndex < Len(At(slides, handler.slideIndex).blocks)
    /\ LET s     == handler.slideIndex + 1
           b     == handler.blockIndex + 1
           block == slides[s].blocks[b]
       IN  IF block.type = "stock-image" /\ ~Falsy(block.imageQuery)
           THEN \E outcome \in StockOutcomes :
                    /\ slides' = [slides EXCEPT ![s].blocks[b] =
                                     resolveStockImage(block, handler.imageIndex,
                                                       handler.pixabayKey, outcome)]
                    /\ handler' = [handler EXCEPT !.blockIndex = @ + 1, !.imageIndex = @ + 1]
                    /\ pc' = IF handler.pixabayKey /\ outcome = "throws"
                             THEN "error" ELSE pc
           ELSE IF block.type = "ai-image"
           THEN \E outcome \in AiOutcomes :
                    /\ slides' = [slides EXCEPT ![s].blocks[b] =
                                     resolveAIImage(block, handler.imageIndex,
                                                    handler.geminiKey, outcome)]
                    /\ handler' = [handler EXCEPT !.blockIndex = @ + 1, !.imageIndex = @ + 1]
                    /\ pc' = IF handler.geminiKey /\ outcome = "throws"
                             THEN "error" ELSE pc
           ELSE /\ slides' = slides
                /\ handler' = [handler EXCEPT !.blockIndex = @ + 1]
                /\ pc' = pc
    /\ UNCHANGED <<lines, meta, bodyStart, splitIndex, chunks, current, slideChunks, k, i,
                   slide>>

\* One pass of the inner loop of resolveImages.
ResolveBlock ==
    /\ pc = "resolve"
    /\ handler.slideIndex < Len(slides)
    /\ handler.blockIndex < Len(At(slides, handler.slideIndex).blocks)
    /\ LET s     == handler.slideIndex + 1
           b     == handler.blockIndex + 1
           block == slides[s].blocks[b]
       IN  IF block.type = "stock-image" /\ ~Falsy(block.imageQuery)
           THEN \E outcome \in StockOutcomes :
                    /\ slides' = [slides EXCEPT ![s].blocks[b] =
                                     resolveStockImage(block, handler.imageIndex,
                                                       handler.pixabayKey, outcome)]
                    /\ handler' = [handler EXCEPT !.blockIndex = @ + 1, !.imageIndex = @ + 1]
           ELSE IF block.type = "ai-image"
           THEN \E outcome \in AiOutcomes :
                    /\ slides' = [slides EXCEPT ![s].blocks[b] =
                                     resolveAIImage(block, handler.imageIndex,
                                                    handler.geminiKey, outcome)]
                    /\ handler' = [handler EXCEPT !.blockIndex = @ + 1, !.imageIndex = @ + 1]
           ELSE /\ slides' = slides
                /\ handler' = [handler EXCEPT !.blockIndex = @ + 1]
    /\ UNCHANGED <<lines, pc, meta, bodyStart, splitIndex, chunks, current, slideChunks, k, i,
                   slide>>

\* The inner loop of resolveImages ends: the next slide.
ResolveNextSlide ==
    /\ pc = "resolve"
    /\ handler.slideIndex < Len(slides)
    /\ ~(handler.blockIndex < Len(At(slides, handler.slideIndex).blocks))
    /\ handler' = [handler EXCEPT !.slideIndex = @ + 1, !.blockIndex = 0]
    /\ UNCHANGED <<lines, pc, meta, bodyStart, splitIndex, chunks, current, slideChunks, k, i,
                   slide, slides>>

\* resolveImages returns.
ResolveDone ==
    /\ pc = "resolve"
    /\ ~(handler.slideIndex < Len(slides))
    /\ pc' = "generate"
    /\ UNCHANGED <<lines, meta, bodyStart, splitIndex, chunks, current, slideChunks, k, i,
                   slide, slides, handler>>

\* The handler generates the output and writes it.  Both generators call
\* getTheme on the metadata first; an error thrown there, like one of the
\* write, is returned as the error.
Generate ==
    /\ pc = "generate"
    /\ \E written \in BOOLEAN :
           pc' = IF getTheme(meta) # <<>> /\ written THEN "generated" ELSE "error"
    /\ UNCHANGED <<lines, meta, bodyStart, splitIndex, chunks, current, slideChunks, k, i,
                   slide, slides, handler>>

\* The steps of a call of create_presentation.
NextTool ==
    \/ Next
    \/ ApplyTheme
    \/ ResolveBlock
    \/ ResolveNextSlide
    \/ ResolveDone
    \/ Generate

\* ---------------------------------------------------------------- inputs

LnEmpty == <<>>

LnBlank == <<" ">>

LnRule == <<"-", "-", "-">>

LnFence == <<BQ, BQ, BQ>>

LnFenceJs == <<BQ, BQ, BQ, "j", "s">>

LnTitle == <<"#", " ", "T">>

LnText == <<"a">>

LnBrokenImage == <<"!", "[", "x">>

\* Lines for the segmenter and the dispatcher.
PoolSplit == {LnEmpty, LnBlank, LnRule, LnFence, LnFenceJs, LnTitle, LnText, LnBrokenImage}

Init == \E input \in Inputs(PoolSplit) : Start(input)

Spec == Init /\ [][Next]_vars

LnRule4 == <<"-", "-", "-", "-">>

LnMetaTitle == <<"t", "i", "t", "l", "e", ":", " ", "M", "y">>

LnMetaNoTitle == <<"t", "i", "t", "l", "e", ":">>

LnSubtitle == <<"#", "#", " ", "S">>

\* Lines for the frontmatter and the title back-fill.
PoolMeta == {LnRule, LnRule4, LnMetaTitle, LnMetaNoTitle, LnTitle, LnSubtitle, LnText}

InitMeta == \E input \in Inputs(PoolMeta) : Start(input)

SpecMeta == InitMeta /\ [][Next]_vars

LnImage == <<"!", "[", "a", "]", "(", "b", ")">>

LnStock == <<"!", "[", "s", "t", "o", "c", "k", ":", " ", "q", "]", "(", "o", ")">>

LnAiPhoto == <<"!", "[", "a", "i", "-", "p", "h", "o", "t", "o", ":", " ", "p", "]", "(", ")">>

\* Lines for the layout of a slide.
PoolLayout == {LnEmpty, LnRule, LnMetaTitle, LnTitle, LnText, LnImage, LnStock, LnAiPhoto}

InitLayout == \E input \in Inputs(PoolLayout) : Start(input)

SpecLayout == InitLayout /\ [][Next]_vars

LnStockEmpty == <<"!", "[", "s", "t", "o", "c", "k", ":", "]", "(", "o", ")">>

LnStockWide ==
    <<" ", "!", "[", "s", "t", "o", "c", "k", ":", " ", " ", "q", " ", "r", "]", "(", ")">>

LnAiOther == <<"!", "[", "a", "i", "-", "x", ":", " ", "p", "]", "(", ")">>

LnAiDiagram ==
    <<"!", "[", "a", "i", "-", "d", "i", "a", "g", "r", "a", "m", ":", "p", "]", "(", "u", ")">>

\* Lines for the image branches of the dispatcher.
PoolImage ==
    {LnImage, LnStock, LnStockWide, LnStockEmpty, LnAiPhoto, LnAiDiagram, LnAiOther}

InitImage == \E input \in Inputs(PoolImage) : Start(input)

SpecImage == InitImage /\ [][Next]_vars

LnBullet == <<"-", " ", "P">>

LnStar == <<"*", " ", " ", "Q">>

LnSubBullet == <<" ", " ", "-", " ", "C">>

LnSubStar == <<" ", "*", " ", "D">>

\* An indented marker with white space and no text behind it.
LnSubEmpty == <<" ", " ", "-", " ">>

\* Lines for the bullet list.
PoolList == {LnEmpty, LnBullet, LnStar, LnSubBullet, LnSubStar, LnSubEmpty, LnText}

InitList == \E input \in Inputs(PoolList) : Start(input)

SpecList == InitList /\ [][Next]_vars

\* Every input of at most MaxLines lines that starts with the line first
\* and goes on with lines drawn from pool.
InputsBehind(first, pool) ==
    {<<first>> \o rest : rest \in UNION {[1..n -> pool] : n \in 1..(MaxLines - 1)}}

LnChart == <<BQ, BQ, BQ, "c", "h", "a", "r", "t">>

LnTypePie == <<"t", "y", "p", "e", ":", " ", "p", "i", "e">>

LnTypeLine == <<"T", "Y", "P", "E", ":", "L", "i", "n", "e">>

LnTypeOther == <<"t", "y", "p", "e", ":", " ", "x">>

LnTitleR == <<"t", "i", "t", "l", "e", ":", " ", "R">>

LnTitleBare == <<"t", "i", "t", "l", "e", ":">>

LnRowA == <<"a", ":", " ", "1">>

LnRowB == <<" ", "a", ":", "b", ":", "0", "2", ".", "5", "0">>

LnRowNeg == <<"b", ":", " ", "-", "1">>

\* Lines for the body of a chart fence.
PoolChart ==
    {LnTypePie, LnTypeLine, LnTypeOther, LnTitleR, LnTitleBare, LnRowA, LnRowB, LnRowNeg,
     LnFence}

InitChart == \E input \in InputsBehind(LnChart, PoolChart) : Start(input)

SpecChart == InitChart /\ [][Next]_vars

LnMindMap == <<BQ, BQ, BQ, "m", "i", "n", "d", "m", "a", "p">>

LnBranchA == <<"-", " ", "A">>

LnBranchB == <<"-", " ", " ", "B", " ">>

LnChildX == <<" ", " ", "-", " ", "x">>

LnChildY == <<" ", " ", " ", "-", " ", " ", "y", " ">>

\* A dash one space in.
LnNear == <<" ", "-", " ", "N">>

\* An indented dash with nothing but white space behind it.
LnChildBlank == <<" ", " ", "-", " ", " ">>

LnCenter == <<"c", "e", "n", "t", "e", "r", ":", " ", "M">>

\* Lines for the body of a mindmap fence.
PoolMindMap ==
    {LnBranchA, LnBranchB, LnChildX, LnChildY, LnNear, LnChildBlank, LnCenter, LnFence}

InitMindMap == \E input \in InputsBehind(LnMindMap, PoolMindMap) : Start(input)

SpecMindMap == InitMindMap /\ [][Next]_vars

LnKeyColor == <<"c", "o", "l", "o", "r", ":", " ", "r", "e", "d">>

LnKeyFont == <<"f", "o", "n", "t", ":", "F">>

LnKeyTheme == <<"t", "h", "e", "m", "e", ":", " ", "d">>

LnKeyOther == <<"x", ":", " ", "y">>

LnAspectNarrow ==
    <<"a", "s", "p", "e", "c", "t", "-", "r", "a", "t", "i", "o", ":", " ", "4", ":", "3">>

LnAspectWide ==
    <<"A", "s", "p", "e", "c", "t", "-", "R", "a", "t", "i", "o", ":", " ", "\"", "1", "6", ":",
      "9", "\"">>

LnAspectOther ==
    <<"a", "s", "p", "e", "c", "t", "-", "r", "a", "t", "i", "o", ":", " ", "1", ":", "1">>

LnAspectAlias == <<"a", "s", "p", "e", "c", "t", "r", "a", "t", "i", "o", ":", "4", ":", "3">>

\* Lines for the keys of the frontmatter.
PoolKeys ==
    {LnRule, LnKeyColor, LnKeyFont, LnKeyTheme, LnKeyOther, LnAspectNarrow, LnAspectWide,
     LnAspectOther, LnAspectAlias}

InitKeys == \E input \in InputsBehind(LnRule, PoolKeys) : Start(input)

SpecKeys == InitKeys /\ [][Next]_vars

\* Lines for a call of create_presentation.
PoolTool == {LnRule, LnKeyTheme, LnStock, LnAiPhoto, LnText}

InitTool == \E input \in Inputs(PoolTool) : Start(input)

SpecTool == InitTool /\ [][NextTool]_vars

\* Frontmatter lines that name a theme or a style, for a call of
\* create_presentation.
LnThemeDark == <<"t", "h", "e", "m", "e", ":", " ", "d", "a", "r", "k">>

LnThemeNeon == <<"t", "h", "e", "m", "e", ":", " ", "n", "e", "o", "n">>

LnThemeConstructor ==
    <<"t", "h", "e", "m", "e", ":", " ", "c", "o", "n", "s", "t", "r", "u", "c", "t", "o", "r">>

LnThemeProto == <<"t", "h", "e", "m", "e", ":", " ", "_", "_", "p", "r", "o", "t", "o", "_", "_">>

LnThemeBare == <<"t", "h", "e", "m", "e", ":">>

LnStyleMinimal == <<"s", "t", "y", "l", "e", ":", " ", "m", "i", "n", "i", "m", "a", "l">>

PoolTheme == {LnRule, LnThemeDark, LnThemeNeon, LnThemeConstructor, LnThemeProto, LnThemeBare,
              LnStyleMinimal, LnKeyColor, LnText}

InitTheme == \E input \in InputsBehind(LnRule, PoolTheme) : Start(input)

SpecTheme == InitTheme /\ [][NextTool]_vars

\* Heading lines.
LnTitleV == <<"#", " ", "V">>

LnSubtitleU == <<"#", "#", " ", " ", "U">>

LnThird == <<"#", "#", "#", " ", "H">>

PoolHeading == {LnEmpty, LnTitle, LnTitleV, LnSubtitle, LnSubtitleU, LnThird, LnText}

InitHeading == \E input \in Inputs(PoolHeading) : Start(input)

SpecHeading == InitHeading /\ [][Next]_vars

\* Opening fences of code blocks.
LnFenceUpper == <<BQ, BQ, BQ, "J", "S">>

LnFencePadded == <<BQ, BQ, BQ, " ", "P", "y", " ">>

LnFenceFour == <<BQ, BQ, BQ, BQ, "c">>

PoolCode == {LnEmpty, LnFence, LnFenceJs, LnFenceUpper, LnFencePadded, LnFenceFour, LnText}

InitCode == \E input \in Inputs(PoolCode) : Start(input)

SpecCode == InitCode /\ [][Next]_vars

\* Fences of the three kinds, closed or not.
PoolFence == {LnFence, LnFenceJs, LnChart, LnMindMap, LnRule, LnTitle, LnText}

InitFence == \E input \in Inputs(PoolFence) : Start(input)

SpecFence == InitFence /\ [][Next]_vars

\* Lines that look like constructs of the dispatcher, behind an opening
\* fence.
LnNotes == <<"<", "!", "-", "-", "n", "o", "t", "e", "s", ":", "n", "-", "-", ">">>

LnBg == <<"<", "!", "-", "-", "b", "g", ":", "r", "-", "-", ">">>

PoolInner == {LnFence, LnTitle, LnSubtitle, LnBullet, LnImage, LnNotes, LnBg, LnRule}

InitInner ==
    \E input \in InputsBehind(LnFenceJs, PoolInner) \cup InputsBehind(LnChart, PoolInner) :
        Start(input)

SpecInner == InitInner /\ [][Next]_vars

\* List items of both kinds with blank lines between them.
LnNumbered == <<"1", ".", " ", "N">>

PoolBlank == {LnEmpty, LnBlank, LnBullet, LnSubBullet, LnSubEmpty, LnNumbered, LnText}

InitBlank == \E input \in Inputs(PoolBlank) : Start(input)

SpecBlank == InitBlank /\ [][Next]_vars

\* ---------------------------------------------------------------- claims

\* C1: for every input parse terminates: every pass of the loop of
\* parseSlide either ends the loop or moves the cursor towards the end of
\* the chunk, so that the loop reaches the end of each chunk after finitely
\* many passes and parse returns.
C1_ParseTerminates == [][pc = "dispatch" => (pc' = "slides" \/ i' > i)]_vars

\* C2: parse never ends in an error outcome: no run of parse ends other
\* than by returning a document.
C2_NeverFails == pc # "crashed"

\* Whether the body line at index d lies inside a fence as parseSlide reads
\* fences: a line starting with three backticks opens one, the next line of
\* bare backticks closes it.  open tells whether a fence is open at index j.
RECURSIVE FenceOpenAt(_, _, _, _)
FenceOpenAt(ls, j, d, open) ==
    IF j = d THEN open
    ELSE IF open THEN FenceOpenAt(ls, j + 1, d, ~FenceClose(Trim(At(ls, j))))
    ELSE FenceOpenAt(ls, j + 1, d, FenceOpen(Trim(At(ls, j))))

\* The line the splitter is at is a dash rule between an opening fence and
\* that fence's closing line.
RuleInsideFence ==
    /\ pc = "split"
    /\ splitIndex < Len(lines)
    /\ DashRule(At(lines, splitIndex))
    /\ FenceOpenAt(lines, bodyStart, splitIndex, FALSE)
    /\ \E c \in (splitIndex + 1)..(Len(lines) - 1) : FenceClose(Trim(At(lines, c)))

\* C3: a dash rule between an opening fence and that fence's closing line
\* never splits the slide: the splitter keeps it as a line of the chunk
\* that holds the opening fence.
C3_RuleInFenceKept ==
    [][RuleInsideFence => current' = Append(current, At(lines, splitIndex))]_vars

\* A chunk with a character that is not white space.
HasText(chunk) ==
    \E j \in 1..Len(chunk) : \E c \in 1..Len(chunk[j]) : ~IsSpace(chunk[j][c])

\* The loop of parseSlide run to its end over a chunk.
RECURSIVE RunSlide(_, _, _)
RunSlide(ls, cursor, sl) ==
    IF cursor < Len(ls)
    THEN RunSlide(ls, DispatchLine(ls, cursor, sl).i, DispatchLine(ls, cursor, sl).sl)
    ELSE sl

\* What a slide holds besides its layout.
SlideBody(s) ==
    [title |-> s.title, subtitle |-> s.subtitle, notes |-> s.notes,
     background |-> s.background, blocks |-> s.blocks]

\* C4: the slides parse returns are, in input order, one slide per chunk of
\* the segmentation that has a non-blank line; an empty or all-blank chunk
\* gives no slide and no chunk is merged or split after segmentation.
C4_SlidePerChunk ==
    pc = "done" =>
        LET kept == SelectSeq(chunks, HasText)
        IN  /\ Len(slides) = Len(kept)
            /\ \A j \in 1..Len(kept) :
                   SlideBody(slides[j]) =
                       RunSlide(kept[j], SkipLeadingBlank(kept[j]), EmptySlide)

\* parse returned a slide, and an all-blank chunk gave none.
C4_Witness ==
    /\ pc = "done"
    /\ Len(slides) >= 1
    /\ \E j \in 1..Len(chunks) : Len(chunks[j]) > 0 /\ ~HasText(chunks[j])

\* Line 0 is not a 3-dash rule, or it is and no later line is one.
NoFrontmatter ==
    \/ Trim(lines[1]) # ThreeDashes
    \/ ~\E j \in 2..Len(lines) : Trim(lines[j]) = ThreeDashes

\* C5: when line 0 is not a 3-dash rule, or is one that no later 3-dash rule
\* closes, parseFrontmatter returns body start 0 and metadata whose only set
\* field is aspectRatio = 16:9, and the segmenter is handed every line.
C5_NoFrontmatterDefault ==
    (NoFrontmatter /\ pc \in {"split", "slides", "dispatch", "crashed"}) =>
        /\ bodyStart = 0
        /\ meta = [title |-> Undefined, author |-> Undefined, date |-> Undefined,
                   theme |-> Undefined, aspectRatio |-> <<"1", "6", ":", "9">>,
                   accentColor |-> Undefined, fontFamily |-> Undefined,
                   style |-> Undefined]
        /\ (pc = "split" /\ chunks = <<>> /\ current = <<>>) => splitIndex = 0

\* An opening rule that nothing closes, followed by a title line, has been
\* through parseFrontmatter.
C5_Witness ==
    /\ pc = "split"
    /\ Len(lines) >= 2
    /\ lines[1] = LnRule
    /\ lines[2] = LnMetaTitle
    /\ NoFrontmatter

\* The title the frontmatter of the input gives.
FrontmatterTitle == parseFrontmatter(lines).meta.title

\* C6: after parse, meta.title is the frontmatter title when the frontmatter
\* gave a non-empty one; otherwise it is the title of the first slide when
\* that slide has one; no other slide contributes.
C6_TitleBackFill ==
    pc = "done" =>
        IF FrontmatterTitle # Undefined /\ FrontmatterTitle # <<>>
        THEN meta.title = FrontmatterTitle
        ELSE IF Len(slides) >= 1 /\ slides[1].title # Undefined
        THEN meta.title = slides[1].title
        ELSE meta.title = FrontmatterTitle

\* parse returned with a frontmatter title and a first slide titled
\* otherwise.
C6_Witness ==
    /\ pc = "done"
    /\ FrontmatterTitle = <<"M", "y">>
    /\ Len(slides) >= 1
    /\ slides[1].title = <<"T">>

\* C7: for every input, a first slide with a title and no content block has
\* layout title.
C7_FirstSlideTitleLayout ==
    (pc = "done" /\ Len(slides) >= 1) =>
        ((slides[1].title # Undefined /\ Len(slides[1].blocks) = 0) =>
            slides[1].layout = "title")

\* C8: every slide parse produces has a layout among title, section,
\* content and image-full; two-column and blank never occur.
C8_LayoutClosed ==
    \A j \in 1..Len(slides) :
        slides[j].layout \in {"title", "section", "content", "image-full"}

\* Slides of three of the layouts have been produced, one of them with two
\* blocks.
C8_Witness ==
    /\ \E j \in 1..Len(slides) : slides[j].layout = "content" /\ Len(slides[j].blocks) = 2
    /\ \E j \in 1..Len(slides) : slides[j].layout = "section"

\* C9: a slide has layout image-full exactly when its blocks are a single
\* block of type image and it has no title, the first slide included; a
\* single stock-image or ai-image block does not qualify.
C9_ImageFull ==
    \A j \in 1..Len(slides) :
        slides[j].layout = "image-full" <=>
            /\ Len(slides[j].blocks) = 1
            /\ slides[j].blocks[1].type = "image"
            /\ slides[j].title = Undefined

\* The first slide is image-full and a later slide holds a single stock
\* image.
C9_Witness ==
    /\ Len(slides) >= 2
    /\ slides[1].layout = "image-full"
    /\ Len(slides[2].blocks) = 1
    /\ slides[2].blocks[1].type = "stock-image"
    /\ slides[2].title = Undefined

\* C10: a slide with a title and no content block that is not the first
\* slide has layout section, and a slide with a title and at least one
\* content block has layout content.
C10_SectionAndContent ==
    \A j \in 1..Len(slides) :
        /\ (slides[j].title # Undefined /\ Len(slides[j].blocks) = 0 /\ j > 1) =>
               slides[j].layout = "section"
        /\ (slides[j].title # Undefined /\ Len(slides[j].blocks) >= 1) =>
               slides[j].layout = "content"

\* A titled first slide with a block, then a slide with a title alone.
C10_Witness ==
    /\ Len(slides) >= 2
    /\ slides[1].title # Undefined
    /\ Len(slides[1].blocks) >= 1
    /\ slides[2].title # Undefined
    /\ Len(slides[2].blocks) = 0

\* Whether t, from position a on, is a bracketed text without a closing
\* bracket that ends at position e, then a parenthesised target without a
\* closing parenthesis, then the end of the line.
LinkForm(t, a, e) ==
    /\ e >= a
    /\ e + 2 <= Len(t)
    /\ \A j \in a..(e - 1) : t[j] # "]"
    /\ t[e] = "]"
    /\ t[e + 1] = "("
    /\ t[Len(t)] = ")"
    /\ \A j \in (e + 2)..(Len(t) - 1) : t[j] # ")"

\* Whether t is a directive image line: the given opening, white space, a
\* text of at least one character, and the link form.
DirectiveForm(t, opening) ==
    /\ StartsWith(t, opening)
    /\ \E e \in 1..Len(t) :
           LinkForm(t, Len(opening) + 1, e) /\ SkipSpaces(t, Len(opening) + 1) < e

\* The text of a directive image line.
DirectiveText(t, opening) ==
    SubSeq(t, SkipSpaces(t, Len(opening) + 1), IndexFrom(t, <<"]">>, 1) - 1)

StockForm(t) == DirectiveForm(t, <<"!", "[", "s", "t", "o", "c", "k", ":">>)

AiForm(t, style) == DirectiveForm(t, <<"!", "[", "a", "i", "-">> \o style \o <<":">>)

ImageForm(t) == StartsWith(t, <<"!", "[">>) /\ \E e \in 1..Len(t) : LinkForm(t, 3, e)

\* The block the pass of the dispatcher that is being taken pushes.
PushedBlock == slide'.blocks[Len(slide'.blocks)]

\* C11: a top-level line of the stock form gives a stock-image block whose
\* imageQuery is the query, a line of the ai form with one of the three
\* styles gives an ai-image block with that style, and any other line of
\* the image form gives an image block.
C11_DirectiveImagesWin ==
    [][(pc = "dispatch" /\ pc' = "dispatch") =>
          LET t == Trim(At(At(slideChunks, k), i))
          IN  /\ ImageForm(t) => Len(slide'.blocks) = Len(slide.blocks) + 1
              /\ StockForm(t) =>
                     /\ PushedBlock.type = "stock-image"
                     /\ PushedBlock.imageQuery = DirectiveText(t, StockPrefix)
              /\ \A style \in {<<"p", "h", "o", "t", "o">>,
                               <<"i", "l", "l", "u", "s", "t", "r", "a", "t", "i", "o", "n">>,
                               <<"d", "i", "a", "g", "r", "a", "m">>} :
                     AiForm(t, style) =>
                         /\ PushedBlock.type = "ai-image"
                         /\ PushedBlock.imageStyle = style
              /\ (/\ ImageForm(t)
                  /\ ~StockForm(t)
                  /\ \A style \in AiStyles : ~AiForm(t, style)) =>
                     PushedBlock.type = "image"]_vars

\* A slide holds a stock image with a two-word query, an ai image, and an
\* image whose alt text starts like a stock directive.
C11_Witness ==
    /\ \E j \in 1..Len(slide.blocks) :
           slide.blocks[j].type = "stock-image" /\ slide.blocks[j].imageQuery = <<"q", " ", "r">>
    /\ \E j \in 1..Len(slide.blocks) :
           slide.blocks[j].type = "ai-image" /\ slide.blocks[j].imageStyle = <<"d", "i", "a", "g", "r", "a", "m">>
    /\ \E j \in 1..Len(slide.blocks) :
           slide.blocks[j].type = "image" /\ slide.blocks[j].alt = <<"s", "t", "o", "c", "k", ":">>

\* The indices of a chunk the cursor of parseSlide stops at from index
\* cursor on: the lines that are read as lines of the slide and not as the
\* inside of a fence or of a notes comment.
RECURSIVE CursorStops(_, _, _)
CursorStops(ls, cursor, sl) ==
    IF cursor >= Len(ls) THEN {}
    ELSE IF DispatchLine(ls, cursor, sl).i <= cursor THEN {cursor}
    ELSE {cursor} \cup CursorStops(ls, DispatchLine(ls, cursor, sl).i,
                                   DispatchLine(ls, cursor, sl).sl)

\* The indices of the level-1 heading lines of a chunk.
LevelOneLines(ls) ==
    {c \in CursorStops(ls, SkipLeadingBlank(ls), EmptySlide) :
        Len(Trim(At(ls, c))) >= 3 /\ Trim(At(ls, c))[1] = "#" /\ IsSpace(Trim(At(ls, c))[2])}

\* The text of the heading line at index c.
HeadingText(ls, c) == Drop(Trim(At(ls, c)), SkipSpaces(Trim(At(ls, c)), 2))

\* C12: in every slide chunk the first level-1 heading line becomes the
\* title of the slide, and every later level-1 heading line becomes a
\* heading block with level 1.
C12_FirstHeadingIsTitle ==
    \A j \in 1..Len(slides) :
        LET ls == slideChunks[j]
            hs == LevelOneLines(ls)
        IN  hs # {} =>
                /\ slides[j].title = HeadingText(ls, SetMin(hs))
                /\ Cardinality({b \in 1..Len(slides[j].blocks) :
                                   slides[j].blocks[b].type = "heading"})
                       = Cardinality(hs) - 1
                /\ \A c \in hs \ {SetMin(hs)} :
                       \E b \in 1..Len(slides[j].blocks) :
                           /\ slides[j].blocks[b].type = "heading"
                           /\ slides[j].blocks[b].level = 1
                           /\ slides[j].blocks[b].content = HeadingText(ls, c)

\* Whether a line is two spaces, a bullet marker, white space and a text.
TwoSpaceBullet(line) ==
    /\ Len(line) >= 5
    /\ line[1] = " "
    /\ line[2] = " "
    /\ line[3] \in {"-", "*"}
    /\ IsSpace(line[4])
    /\ \E c \in 5..Len(line) : ~IsSpace(line[c])

\* Whether a line is a bullet marker in column 0, white space and a text.
TopBullet(line) ==
    /\ Len(line) >= 3
    /\ line[1] \in {"-", "*"}
    /\ IsSpace(line[2])
    /\ \E c \in 3..Len(line) : ~IsSpace(line[c])

\* The text of a bullet line: what follows the marker and its white space,
\* without the white space that ends the line.
BulletText(line) ==
    LET t == Trim(line)
    IN  SubSeq(t, SkipSpaces(t, 2), Len(t))

\* C13: an indented bullet line (two spaces before the marker) behind a
\* top-level bullet is stored in the item list of the same bullets block as
\* its text with two spaces in front.
C13_SubItemPrefixed ==
    [][(/\ pc = "dispatch"
        /\ pc' = "dispatch"
        /\ i + 1 < Len(At(slideChunks, k))
        /\ TopBullet(At(At(slideChunks, k), i))
        /\ TwoSpaceBullet(At(At(slideChunks, k), i + 1))) =>
          /\ PushedBlock.type = "bullets"
          /\ Len(PushedBlock.items) >= 2
          /\ PushedBlock.items[2] = <<" ", " ">> \o BulletText(At(At(slideChunks, k), i + 1))]_vars

\* Whether a line is optional white space, a bullet marker, white space and
\* a text.
BulletWithText(line) == TopBullet(Drop(line, SkipSpaces(line, 1)))

\* The items of the bullet list that starts at index c, every bullet line
\* with a text read alike, indented or not: its text.  A blank line with a
\* bullet line behind it is passed over.
RECURSIVE PlainItems(_, _)
PlainItems(ls, c) ==
    IF c >= Len(ls) THEN <<>>
    ELSE IF BulletWithText(At(ls, c)) THEN <<BulletText(At(ls, c))>> \o PlainItems(ls, c + 1)
    ELSE IF Trim(At(ls, c)) = <<>> /\ c + 1 < Len(ls) /\ BulletWithText(At(ls, c + 1))
    THEN PlainItems(ls, c + 1)
    ELSE <<>>

\* Whether a line is a bullet marker with no text behind it.
BareMarker(line) == Trim(line) \in {<<"-">>, <<"*">>}

ItemLine(item) ==
    IF Len(item) >= 2 /\ item[1] = " " /\ item[2] = " "
    THEN <<" ", " ", "-", " ">> \o SubSeq(item, 3, Len(item))
    ELSE <<"-", " ">> \o item

\* The items of a bullets block written back as lines.
ItemLines(items) == [c \in 1..Len(items) |-> ItemLine(items[c])]

\* C15: bullet items round-trip: the items of a bullets block, written
\* back as lines and parsed again, give a bullets block with the same
\* items.
C15_BulletRoundTrip ==
    \A b \in 1..Len(slide.blocks) :
        slide.blocks[b].type = "bullets" =>
            LET again == RunSlide(ItemLines(slide.blocks[b].items), 0, EmptySlide).blocks
            IN  /\ Len(again) = 1
                /\ again[1].type = "bullets"
                /\ again[1].items = slide.blocks[b].items

\* The kinds a type line names: the word type and a colon, white space, one
\* of bar, pie and line, letter case ignored.
KindsNamed(t) ==
    {kd \in {<<"b", "a", "r">>, <<"p", "i", "e">>, <<"l", "i", "n", "e">>} :
        /\ Len(t) >= 5 + Len(kd)
        /\ ToLowerCase(SubSeq(t, 1, 5)) = <<"t", "y", "p", "e", ":">>
        /\ ToLowerCase(SubSeq(t, Len(t) - Len(kd) + 1, Len(t))) = kd
        /\ \A j \in 6..(Len(t) - Len(kd)) : IsSpace(t[j])}

\* A title line: the word title and a colon, then a text.
TitleRow(t) ==
    /\ Len(t) >= 7
    /\ ToLowerCase(SubSeq(t, 1, 6)) = <<"t", "i", "t", "l", "e", ":">>
    /\ \E j \in 7..Len(t) : ~IsSpace(t[j])

\* A number as a chart row writes it: digits, with at most one point that
\* has a digit on either side.
Numeral(s) ==
    /\ Len(s) >= 1
    /\ \A j \in 1..Len(s) : IsDigit(s[j]) \/ s[j] = "."
    /\ Cardinality({j \in 1..Len(s) : s[j] = "."}) <= 1
    /\ IsDigit(s[1])
    /\ IsDigit(s[Len(s)])

\* The position of the last colon of t, 0 when it has none.
LastColon(t) ==
    IF \E j \in 1..Len(t) : t[j] = ":" THEN SetMax({j \in 1..Len(t) : t[j] = ":"}) ELSE 0

\* A data row: a label, a colon, white space, a number.
DataRow(t) ==
    /\ LastColon(t) >= 2
    /\ Numeral(Drop(t, SkipSpaces(t, LastColon(t) + 1)))

\* Whether the value v = [whole, frac] is the number s writes: with d
\* digits behind the point, the digits of s read as one integer are that
\* number times 10^d.
SameNumber(v, s) ==
    LET ds == SelectSeq(s, IsDigit)
        pt == {j \in 1..Len(s) : s[j] = "."}
        d  == IF pt = {} THEN 0 ELSE Len(s) - SetMax(pt)
    IN  /\ Len(v.frac) <= d
        /\ Whole(ds) = v.whole * 10 ^ d + Whole(v.frac) * 10 ^ (d - Len(v.frac))
        /\ (Len(v.frac) > 0 => v.frac[Len(v.frac)] # "0")

\* The n-th smallest member of a set of integers.
Nth(S, n) == CHOOSE x \in S : Cardinality({y \in S : y <= x}) = n

\* Whether data is the reference reading of the lines of a chart body.
ChartReading(data, body) ==
    LET t(j)   == Trim(body[j])
        types  == {j \in 1..Len(body) : KindsNamed(t(j)) # {}}
        titles == {j \in 1..Len(body) : KindsNamed(t(j)) = {} /\ TitleRow(t(j))}
        rows   == {j \in 1..Len(body) : j \notin types /\ j \notin titles /\ DataRow(t(j))}
    IN  /\ IF types = {} THEN data.type = <<"b", "a", "r">>
           ELSE data.type \in KindsNamed(t(SetMax(types)))
        /\ IF titles = {} THEN data.title = Undefined
           ELSE data.title = Trim(Drop(t(SetMax(titles)), 7))
        /\ Len(data.items) = Cardinality(rows)
        /\ \A n \in 1..Len(data.items) :
               LET r == t(Nth(rows, n))
               IN  /\ data.items[n].label = Trim(SubSeq(r, 1, LastColon(r) - 1))
                   /\ SameNumber(data.items[n].value,
                                 Drop(r, SkipSpaces(r, LastColon(r) + 1)))

\* Whether the line the cursor is at opens a fence with the given label.
AtFence(label) ==
    /\ pc = "dispatch"
    /\ pc' = "dispatch"
    /\ Trim(At(At(slideChunks, k), i)) \in {BackTicks \o label, BackTicks \o <<" ">> \o label}

\* The lines behind the cursor up to the closing fence or the end of the
\* chunk.
BodyBehind ==
    LET ls     == At(slideChunks, k)
        closes == {j \in (i + 2)..Len(ls) : Trim(ls[j]) = BackTicks}
    IN  SubSeq(ls, i + 2, IF closes = {} THEN Len(ls) ELSE SetMin(closes) - 1)

\* C16: parseChartData equals the reference reading of its lines: the kind
\* of the last type line or bar, the text of the last title line, and as
\* items, in source order and with duplicate labels kept, the remaining
\* lines of the form label: number; every other line contributes nothing.
C16_ChartReference ==
    [][AtFence(<<"c", "h", "a", "r", "t">>) =>
          /\ PushedBlock.type = "chart"
          /\ Len(PushedBlock.chartData) = 1
          /\ ChartReading(PushedBlock.chartData[1], BodyBehind)]_vars

\* A chart with two rows of the same label behind a type line.
C16_Witness ==
    \E b \in 1..Len(slide.blocks) :
        /\ slide.blocks[b].type = "chart"
        /\ slide.blocks[b].chartData[1].type = <<"l", "i", "n", "e">>
        /\ Len(slide.blocks[b].chartData[1].items) = 2
        /\ slide.blocks[b].chartData[1].items[1].label = <<"a">>
        /\ slide.blocks[b].chartData[1].items[2].label = <<"a">>

\* The number of white space characters a line starts with.
Indent(line) == SkipSpaces(line, 1) - 1

\* Whether a line, from position a on, is a dash, white space, and at
\* least one more character.
DashText(line, a) ==
    /\ Len(line) >= a + 2
    /\ line[a] = "-"
    /\ IsSpace(line[a + 1])

\* A child line: two or more leading spaces, then a dash and a text.
ChildLine(line) == Indent(line) >= 2 /\ DashText(line, Indent(line) + 1)

\* A line that adds a branch: a dash in the first column and a text.
BranchLine(line) == Trim(line) # <<>> /\ DashText(line, 1)

\* The text behind the dash of a branch or child line.
DashLabel(line) == Trim(Tail(Trim(line)))

\* Whether data has the branches of the body and under each branch, in
\* encounter order, the child lines between it and the next branch.
ChildrenReading(data, body) ==
    LET bs == {j \in 1..Len(body) : BranchLine(body[j])}
    IN  /\ Len(data.branches) = Cardinality(bs)
        /\ \A n \in 1..Len(data.branches) :
               LET from == Nth(bs, n)
                   to   == IF n < Cardinality(bs) THEN Nth(bs, n + 1) ELSE Len(body) + 1
                   cs   == {j \in (from + 1)..(to - 1) : ChildLine(body[j])}
               IN  /\ data.branches[n].label = DashLabel(body[from])
                   /\ Len(data.branches[n].children) = Cardinality(cs)
                   /\ \A c \in 1..Cardinality(cs) :
                          data.branches[n].children[c] = DashLabel(body[Nth(cs, c)])

\* C17: in a mindmap body every child line is appended, in encounter
\* order, to the children of the most recently added branch; a child line
\* before any branch is ignored; a branch with no child line has an empty
\* children sequence.
C17_ChildrenOfLastBranch ==
    [][AtFence(<<"m", "i", "n", "d", "m", "a", "p">>) =>
          /\ PushedBlock.type = "mindmap"
          /\ Len(PushedBlock.mindmapData) = 1
          /\ ChildrenReading(PushedBlock.mindmapData[1], BodyBehind)]_vars

\* A mind map whose first branch has no child and whose second has one.
C17_Witness ==
    \E b \in 1..Len(slide.blocks) :
        /\ slide.blocks[b].type = "mindmap"
        /\ Len(slide.blocks[b].mindmapData[1].branches) = 2
        /\ slide.blocks[b].mindmapData[1].branches[1].children = <<>>
        /\ slide.blocks[b].mindmapData[1].branches[2].children = <<<<"x">>>>

\* The key of a frontmatter line, in lower case: the text before its first
\* colon.  A blank line, a comment line and a line without a colon have no
\* key, written as the empty key.
KeyOf(raw) ==
    LET t == Trim(raw)
    IN  IF t = <<>> \/ t[1] = "#" \/ ~\E j \in 1..Len(t) : t[j] = ":" THEN <<>>
        ELSE ToLowerCase(Trim(SubSeq(t, 1, SetMin({j \in 1..Len(t) : t[j] = ":"}) - 1)))

\* The lines between the opening and the closing rule of the frontmatter.
FrontmatterBlock == IF bodyStart >= 2 THEN SubSeq(lines, 2, bodyStart - 1) ELSE <<>>

\* The metadata read from the lines of the frontmatter whose key is one of
\* keys, every other line taken away.
ReadKeys(keys) ==
    LET kept == SelectSeq(FrontmatterBlock, LAMBDA raw : KeyOf(raw) \in keys)
    IN  FrontmatterLoop(kept, 0, Len(kept), DefaultMeta)

\* The eight keys the claim lists.
ListedKeys ==
    {<<"t", "i", "t", "l", "e">>, <<"a", "u", "t", "h", "o", "r">>, <<"d", "a", "t", "e">>,
     <<"t", "h", "e", "m", "e">>,
     <<"a", "s", "p", "e", "c", "t", "-", "r", "a", "t", "i", "o">>,
     <<"a", "c", "c", "e", "n", "t", "-", "c", "o", "l", "o", "r">>,
     <<"f", "o", "n", "t", "-", "f", "a", "m", "i", "l", "y">>,
     <<"s", "t", "y", "l", "e">>}

\* The other spellings the switch of parseFrontmatter has a case for.
OtherSpellings ==
    {<<"a", "s", "p", "e", "c", "t", "r", "a", "t", "i", "o">>,
     <<"a", "c", "c", "e", "n", "t", "c", "o", "l", "o", "r">>,
     <<"c", "o", "l", "o", "r">>,
     <<"f", "o", "n", "t">>,
     <<"f", "o", "n", "t", "f", "a", "m", "i", "l", "y">>}

\* C18: a frontmatter line whose key is not one of title, author, date,
\* theme, aspect-ratio, accent-color, font-family and style leaves every
\* metadata field unchanged: the metadata is what the lines with those keys
\* alone give.
C18_UnlistedKeyIgnored == pc = "split" => meta = ReadKeys(ListedKeys)

\* C18 as amended: a frontmatter line whose key is none of the eight and
\* none of aspectratio, accentcolor, color, font and fontfamily leaves
\* every metadata field unchanged.
C18_UnknownKeyIgnored == pc = "split" => meta = ReadKeys(ListedKeys \cup OtherSpellings)

\* A frontmatter with a line of an unknown key behind a theme line has
\* been read.
C18_Witness ==
    /\ pc = "split"
    /\ Len(FrontmatterBlock) = 2
    /\ KeyOf(FrontmatterBlock[1]) = <<"t", "h", "e", "m", "e">>
    /\ KeyOf(FrontmatterBlock[2]) = <<"x">>
    /\ meta.theme = <<"d">>

\* The value of a frontmatter line that has a key: the text behind its
\* first colon, trimmed, without the quote that opens and the quote that
\* closes it.
ValueOf(raw) ==
    LET t == Trim(raw)
        v == Trim(Drop(t, SetMin({j \in 1..Len(t) : t[j] = ":"}) + 1))
        a == IF Len(v) > 0 /\ v[1] \in {"\"", "'"} THEN Tail(v) ELSE v
    IN  IF Len(a) > 0 /\ a[Len(a)] \in {"\"", "'"} THEN SubSeq(a, 1, Len(a) - 1) ELSE a

\* The two aspect ratios.
Ratios == {<<"1", "6", ":", "9">>, <<"4", ":", "3">>}

\* The aspect ratio the frontmatter gives when the lines with a key among
\* keys are the aspect-ratio lines: the value of the last of them whose
\* value is one of the two ratios, and 16:9 when there is none.
RatioRead(keys) ==
    LET valid == {j \in 1..Len(FrontmatterBlock) :
                     /\ KeyOf(FrontmatterBlock[j]) \in keys
                     /\ ValueOf(FrontmatterBlock[j]) \in Ratios}
    IN  IF valid = {} THEN <<"1", "6", ":", "9">>
        ELSE ValueOf(FrontmatterBlock[SetMax(valid)])

\* C19: after parse meta.aspectRatio is one of 16:9 and 4:3: the value of
\* the last aspect-ratio frontmatter line whose value is exactly one of the
\* two, and 16:9 when there is no such line.
C19_AspectRatioLastValid ==
    pc = "done" =>
        /\ meta.aspectRatio \in Ratios
        /\ meta.aspectRatio =
               RatioRead({<<"a", "s", "p", "e", "c", "t", "-", "r", "a", "t", "i", "o">>})

\* C19 as amended: the aspect-ratio lines are the frontmatter lines whose
\* key is aspect-ratio or aspectratio.
C19_AspectRatioEitherSpelling ==
    pc = "done" =>
        /\ meta.aspectRatio \in Ratios
        /\ meta.aspectRatio =
               RatioRead({<<"a", "s", "p", "e", "c", "t", "-", "r", "a", "t", "i", "o">>,
                          <<"a", "s", "p", "e", "c", "t", "r", "a", "t", "i", "o">>})

\* parse returned for a frontmatter with a 4:3 line and, behind it, an
\* aspect-ratio line that has another value.
C19_Witness ==
    /\ pc = "done"
    /\ Len(FrontmatterBlock) = 2
    /\ FrontmatterBlock[1] = LnAspectNarrow
    /\ FrontmatterBlock[2] = LnAspectOther
    /\ meta.aspectRatio = <<"4", ":", "3">>

\* The slides with the resolvedSrc of every block taken away.
WithoutResolved(sls) ==
    [s \in 1..Len(sls) |->
        [layout |-> sls[s].layout, title |-> sls[s].title, subtitle |-> sls[s].subtitle,
         notes |-> sls[s].notes, background |-> sls[s].background,
         blocks |-> [b \in 1..Len(sls[s].blocks) |->
                        [sls[s].blocks[b] EXCEPT !.resolvedSrc = Undefined]]]]

\* Whether the handler is between the return of parse and the generation
\* of the output.
AfterParse == pc \in {"done", "resolve", "generate"}

\* C20: in create_presentation, between parse returning and the output
\* being generated, the only field of the parsed model that is written is
\* resolvedSrc on content blocks; every other field keeps the value parse
\* gave it.
C20_OnlyResolvedSrcWritten ==
    [][AfterParse => (meta' = meta /\ WithoutResolved(slides') = WithoutResolved(slides))]_vars

\* C20 as amended: the only fields written are meta.theme, set to the
\* theme argument when that is neither empty nor default, and resolvedSrc
\* on stock-image and ai-image blocks.
C20_OnlyThemeAndResolvedSrc ==
    [][AfterParse =>
          /\ [meta' EXCEPT !.theme = Undefined] = [meta EXCEPT !.theme = Undefined]
          /\ meta'.theme # meta.theme =>
                 /\ meta'.theme = handler'.theme
                 /\ handler'.theme \notin {<<>>, <<"d", "e", "f", "a", "u", "l", "t">>}
          /\ WithoutResolved(slides') = WithoutResolved(slides)
          /\ \A s \in 1..Len(slides) : \A b \in 1..Len(slides[s].blocks) :
                 slides'[s].blocks[b].resolvedSrc # slides[s].blocks[b].resolvedSrc =>
                     slides[s].blocks[b].type \in {"stock-image", "ai-image"}]_vars

\* The output was generated for a model whose theme the argument replaced
\* and that has a resolved image.
C20_Witness ==
    /\ pc = "generated"
    /\ meta.theme = <<"d", "a", "r", "k">>
    /\ parseFrontmatter(lines).meta.theme = <<"d">>
    /\ \E s \in 1..Len(slides) : \E b \in 1..Len(slides[s].blocks) :
           slides[s].blocks[b].resolvedSrc # Undefined

\* Whether the cursor of resolveImages is on a block, and on one it
\* resolves.
ResolveCursorOnBlock ==
    /\ pc = "resolve"
    /\ handler.slideIndex < Len(slides)
    /\ handler.blockIndex < Len(At(slides, handler.slideIndex).blocks)

ResolveCursorBlock == At(At(slides, handler.slideIndex).blocks, handler.blockIndex)

ResolveCursorOnImage ==
    /\ ResolveCursorOnBlock
    /\ \/ ResolveCursorBlock.type = "stock-image" /\ ResolveCursorBlock.imageQuery # <<>>
                                                   /\ ResolveCursorBlock.imageQuery # Undefined
       \/ ResolveCursorBlock.type = "ai-image"

\* Whether the environment variable the block's resolver reads is set.
KeyFor(block) == IF block.type = "stock-image" THEN handler.pixabayKey ELSE handler.geminiKey

\* C21: when resolving an image block fails (an error is thrown, the
\* search finds nothing, the API key is absent), the block is left exactly
\* as parsed with resolvedSrc absent, resolution goes on with the next
\* block, and the handler reaches the generation of its output and never
\* the error return from resolveImages.
C21_FailedImageLeftAsParsed ==
    [][pc = "resolve" =>
          /\ pc' \in {"resolve", "generate"}
          /\ pc' = "generate" => ~(handler.slideIndex < Len(slides))
          /\ ResolveCursorOnImage =>
                 LET s == handler.slideIndex + 1
                     b == handler.blockIndex + 1
                 IN  /\ handler' = [handler EXCEPT !.blockIndex = @ + 1, !.imageIndex = @ + 1]
                     /\ pc' = "resolve"
                     /\ ~KeyFor(ResolveCursorBlock) => slides' = slides
                     /\ slides'[s].blocks[b].resolvedSrc = Undefined => slides' = slides
                     /\ WithoutResolved(slides') = WithoutResolved(slides)
                     /\ \A t \in 1..Len(slides) : \A c \in 1..Len(slides[t].blocks) :
                            <<t, c>> # <<s, b>> => slides'[t].blocks[c] = slides[t].blocks[c]]_vars

\* The output was generated although, with both keys set, the first image
\* of the first slide stayed unresolved; the image after it was resolved.
C21_Witness ==
    /\ pc = "generated"
    /\ handler.pixabayKey /\ handler.geminiKey
    /\ Len(slides) >= 1 /\ Len(slides[1].blocks) >= 2
    /\ slides[1].blocks[1].type \in {"stock-image", "ai-image"}
    /\ slides[1].blocks[1].resolvedSrc = Undefined
    /\ slides[1].blocks[2].type \in {"stock-image", "ai-image"}
    /\ slides[1].blocks[2].resolvedSrc # Undefined

\* The names of the four built-in themes.
BuiltInNames ==
    {<<"d", "e", "f", "a", "u", "l", "t">>, <<"d", "a", "r", "k">>,
     <<"m", "i", "n", "i", "m", "a", "l">>, <<"c", "o", "r", "p", "o", "r", "a", "t", "e">>}

\* The name the metadata selects: theme, or style when theme is absent
\* (undefined or empty), or default when both are.
SelectedName(m) ==
    IF m.theme # Undefined /\ m.theme # <<>> THEN m.theme
    ELSE IF m.style # Undefined /\ m.style # <<>> THEN m.style
    ELSE <<"d", "e", "f", "a", "u", "l", "t">>

\* C22: getTheme selects the theme named by meta.theme, or by meta.style
\* when meta.theme is absent, or default when both are absent, and for
\* every name that is not one of the four built-in themes it returns the
\* default theme.
C22_UnknownThemeIsDefault ==
    pc = "generate" =>
        /\ getTheme(meta) # <<>>
        /\ getTheme(meta)[1].name = IF SelectedName(meta) \in BuiltInNames
                                    THEN SelectedName(meta)
                                    ELSE <<"d", "e", "f", "a", "u", "l", "t">>

\* Whether a trimmed line is a level-2 heading line: two hash signs, white
\* space, text.
LevelTwoHeading(t) == Len(t) >= 4 /\ t[1] = "#" /\ t[2] = "#" /\ IsSpace(t[3])

\* The text of a level-2 heading line.
LevelTwoText(t) == SubSeq(t, SetMin({j \in 3..Len(t) : ~IsSpace(t[j])}), Len(t))

OpensFence(t) == Len(t) >= 3 /\ t[1] = BQ /\ t[2] = BQ /\ t[3] = BQ

\* The label of an opening fence: the text after its three backticks,
\* trimmed.
LabelOf(t) == Trim(SubSeq(t, 4, Len(t)))

\* C24: for every code block, language is the opening fence's label (the
\* text after the backticks, trimmed) converted to lower case, and is
\* absent when the label is empty.
C24_LanguageLowercased ==
    [][(pc = "dispatch" /\ pc' = "dispatch") =>
          LET t == Trim(At(At(slideChunks, k), i))
          IN  (OpensFence(t) /\ PushedBlock.type = "code") =>
                  PushedBlock.language =
                      IF LabelOf(t) = <<>> THEN Undefined
                      ELSE ToLowerCase(LabelOf(t))]_vars

\* C24 as amended: language is the label as written, its case kept, and
\* is absent when the label is empty.
C24_LanguageAsWritten ==
    [][(pc = "dispatch" /\ pc' = "dispatch") =>
          LET t == Trim(At(At(slideChunks, k), i))
          IN  (OpensFence(t) /\ PushedBlock.type = "code") =>
                  PushedBlock.language =
                      IF LabelOf(t) = <<>> THEN Undefined ELSE LabelOf(t)]_vars

\* A slide with a code block of language JS and, behind it, one of
\* language Py from a padded label.
C24_Witness ==
    /\ pc = "done"
    /\ Len(slides) = 1
    /\ Len(slides[1].blocks) = 2
    /\ slides[1].blocks[1].type = "code"
    /\ slides[1].blocks[1].language = <<"J", "S">>
    /\ slides[1].blocks[2].type = "code"
    /\ slides[1].blocks[2].language = <<"P", "y">>

\* Whether a line is a closing fence: trimmed, it is three backticks.
BareBackticks(line) == Trim(line) = <<BQ, BQ, BQ>>

\* Whether the chunk has no closing fence behind the line at index c.
Unterminated(ls, c) == \A j \in (c + 2)..Len(ls) : ~BareBackticks(ls[j])

\* C25: an opening fence (code, chart or mindmap) with no closing
\* bare-backtick line in its chunk yields exactly one block whose content
\* is all remaining lines of the chunk, and it is the last block of the
\* slide: the cursor ends at or past the chunk end and nothing after the
\* opening fence is parsed as any other construct.
C25_UnterminatedFenceTakesRest ==
    [][(pc = "dispatch" /\ pc' = "dispatch") =>
          LET ls == At(slideChunks, k)
              t  == Trim(At(ls, i))
          IN  (OpensFence(t) /\ Unterminated(ls, i)) =>
                  /\ Len(slide'.blocks) = Len(slide.blocks) + 1
                  /\ SubSeq(slide'.blocks, 1, Len(slide.blocks)) = slide.blocks
                  /\ PushedBlock.type \in {"code", "chart", "mindmap"}
                  /\ PushedBlock.content = Join(SubSeq(ls, i + 2, Len(ls)), "\n")
                  /\ i' >= Len(ls)
                  /\ [slide' EXCEPT !.blocks = <<>>] = [slide EXCEPT !.blocks = <<>>]]_vars

\* A slide that ends in an unterminated chart fence whose content is a
\* heading line, a dash rule and a labelled fence line.
C25_Witness ==
    /\ pc = "done"
    /\ Len(slides) = 1
    /\ Len(slides[1].blocks) = 1
    /\ slides[1].title = Undefined
    /\ slides[1].blocks[1].type = "chart"
    /\ slides[1].blocks[1].content =
           <<"#", " ", "T", "\n", "-", "-", "-", "\n", BQ, BQ, BQ, "j", "s">>

\* The index of the line that closes the fence opened at index c: the
\* first line behind it that is three backticks when trimmed; the length
\* of the chunk when there is none.
ClosingLine(ls, c) ==
    LET closes == {j \in (c + 1)..(Len(ls) - 1) : BareBackticks(At(ls, j))}
    IN  IF closes = {} THEN Len(ls) ELSE SetMin(closes)

\* Whether index d lies between an opening fence and its closing line,
\* reading the chunk from index j, where no fence is open.
RECURSIVE BetweenFences(_, _, _)
BetweenFences(ls, j, d) ==
    IF j >= d THEN FALSE
    ELSE IF OpensFence(Trim(At(ls, j)))
    THEN d < ClosingLine(ls, j) \/ BetweenFences(ls, ClosingLine(ls, j) + 1, d)
    ELSE BetweenFences(ls, j + 1, d)

\* C26: lines lying between an opening fence and its closing
\* bare-backtick line (or the chunk end) are never interpreted by the
\* dispatcher: the cursor never stops on one, and the pass that meets the
\* opening fence sets no title, subtitle, notes or background and pushes
\* the one block of the fence, moving the cursor behind the closing line.
C26_FenceInteriorNotDispatched ==
    [][(pc = "dispatch" /\ pc' = "dispatch") =>
          LET ls == At(slideChunks, k)
              t  == Trim(At(ls, i))
          IN  /\ ~BetweenFences(ls, 0, i)
              /\ OpensFence(t) =>
                     /\ i' > ClosingLine(ls, i) \/ i' >= Len(ls)
                     /\ [slide' EXCEPT !.blocks = <<>>] = [slide EXCEPT !.blocks = <<>>]
                     /\ Len(slide'.blocks) = Len(slide.blocks) + 1
                     /\ SubSeq(slide'.blocks, 1, Len(slide.blocks)) = slide.blocks
                     /\ PushedBlock.type \in {"code", "chart", "mindmap"}]_vars

\* A slide whose code fence holds a heading line and a notes comment: it
\* has the code block only, no title and no notes.
C26_Witness ==
    /\ pc = "done"
    /\ lines = <<LnFenceJs, LnTitle, LnNotes, LnFence>>
    /\ Len(slides) = 1
    /\ slides[1].title = Undefined
    /\ slides[1].notes = Undefined
    /\ Len(slides[1].blocks) = 1
    /\ slides[1].blocks[1].type = "code"

\* Whether a line is an item of a list of the given kind.  A bullet item
\* is a marker, white space and text, indented or not; an indented marker
\* with white space behind it and no text is taken as an item too.  A
\* numbered item is digits, a full stop, white space and text.
ItemOfKind(kind, line) ==
    LET t == Trim(line)
    IN  IF kind = "bullets"
        THEN \/ Len(t) >= 3 /\ t[1] \in {"-", "*"} /\ IsSpace(t[2])
             \/ /\ t \in {<<"-">>, <<"*">>}
                /\ IsSpace(line[1])
                /\ IsSpace(line[Len(line)])
                /\ \E j \in 1..Len(line) - 1 : line[j] = t[1]
        ELSE \E n \in 1..Len(t) :
                 /\ \A j \in 1..n : IsDigit(t[j])
                 /\ Len(t) >= n + 3
                 /\ t[n + 1] = "."
                 /\ IsSpace(t[n + 2])

\* The index of the last item of the block that starts with the item at
\* index c: an item directly behind an item, or behind exactly one blank
\* line behind an item, is in the same block.
RECURSIVE LastOfBlock(_, _, _)
LastOfBlock(kind, ls, c) ==
    IF c + 1 < Len(ls) /\ ItemOfKind(kind, At(ls, c + 1))
    THEN LastOfBlock(kind, ls, c + 1)
    ELSE IF c + 2 < Len(ls) /\ Trim(At(ls, c + 1)) = <<>> /\ ItemOfKind(kind, At(ls, c + 2))
    THEN LastOfBlock(kind, ls, c + 2)
    ELSE c

\* The kind of list a line opens: the kind it is an item of when trimmed,
\* "none" if it is no item.
ListKind(line) ==
    IF ItemOfKind("bullets", Trim(line)) THEN "bullets"
    ELSE IF ItemOfKind("numbered", Trim(line)) THEN "numbered"
    ELSE "none"

\* C27: in a bullet list and in a numbered list, exactly one blank line
\* between two items of the same list kind keeps them in the same block,
\* while two or more consecutive blank lines, or a blank line followed by
\* a line that is not an item of that kind, end the block, so that
\* following items start a new block.
C27_OneBlankLineTolerated ==
    [][(pc = "dispatch" /\ pc' = "dispatch") =>
          LET ls   == At(slideChunks, k)
              kind == ListKind(At(ls, i))
              last == LastOfBlock(kind, ls, i)
          IN  kind # "none" =>
                  /\ Len(slide'.blocks) = Len(slide.blocks) + 1
                  /\ PushedBlock.type = kind
                  /\ Len(PushedBlock.items) =
                         Cardinality({j \in i..last : ItemOfKind(kind, At(ls, j))})
                  /\ i' > last
                  /\ \A j \in (last + 1)..(i' - 1) : Trim(At(ls, j)) = <<>>]_vars

\* A slide whose first block is a bullet list of two items that had one
\* blank line between them, ended by a numbered item, which starts a
\* block of its own.
C27_Witness ==
    /\ pc = "done"
    /\ Len(lines) = 4
    /\ Trim(lines[2]) = <<>>
    /\ Len(slides) = 1
    /\ Len(slides[1].blocks) = 2
    /\ slides[1].blocks[1].type = "bullets"
    /\ Len(slides[1].blocks[1].items) = 2
    /\ slides[1].blocks[2].type = "numbered"

\* Whether a line is a dash, white space and a text behind n leading
\* spaces.
DashLineAt(line, n) ==
    /\ Len(line) >= n + 3
    /\ \A j \in 1..n : line[j] = " "
    /\ line[n + 1] = "-"
    /\ IsSpace(line[n + 2])
    /\ Trim(SubSeq(line, n + 3, Len(line))) # <<>>

\* Whether the branches of data are, in order, the lines of the body that
\* are a dash and a text behind one of the given numbers of leading
\* spaces, each labelled with its text.
BranchesReading(data, body, indents) ==
    LET bs == {j \in 1..Len(body) : \E n \in indents : DashLineAt(body[j], n)}
    IN  /\ Len(data.branches) = Cardinality(bs)
        /\ \A b \in 1..Len(data.branches) :
               data.branches[b].label = Trim(Tail(Trim(body[Nth(bs, b)])))

\* The body without its lines that are a dash and a text one space in.
WithoutOneSpace(body) == SelectSeq(body, LAMBDA line : ~DashLineAt(line, 1))

\* C28: in a mindmap body, a line `- text` with zero leading spaces and a
\* line ` - text` with exactly one leading space each start a new
\* top-level branch labelled text.
C28_BranchAtZeroOrOneSpace ==
    [][AtFence(<<"m", "i", "n", "d", "m", "a", "p">>) =>
          /\ PushedBlock.type = "mindmap"
          /\ Len(PushedBlock.mindmapData) = 1
          /\ BranchesReading(PushedBlock.mindmapData[1], BodyBehind, {0, 1})]_vars

\* C28 as amended: a line `- text` with zero leading spaces starts a new
\* top-level branch labelled text; a line ` - text` with exactly one
\* leading space starts no branch and adds nothing to the mind map.
C28_BranchAtZeroSpacesOnly ==
    [][AtFence(<<"m", "i", "n", "d", "m", "a", "p">>) =>
          /\ PushedBlock.type = "mindmap"
          /\ Len(PushedBlock.mindmapData) = 1
          /\ BranchesReading(PushedBlock.mindmapData[1], BodyBehind, {0})
          /\ PushedBlock.mindmapData[1] = parseMindMapData(WithoutOneSpace(BodyBehind))]_vars

\* A mind map of one branch with one child, from a body that has a dash
\* line one space in between the branch and the child.
C28_Witness ==
    /\ pc = "done"
    /\ lines = <<LnMindMap, LnBranchA, LnNear, LnChildX>>
    /\ Len(slides) = 1
    /\ Len(slides[1].blocks) = 1
    /\ Len(slides[1].blocks[1].mindmapData[1].branches) = 1
    /\ slides[1].blocks[1].mindmapData[1].branches[1].label = <<"A">>
    /\ slides[1].blocks[1].mindmapData[1].branches[1].children = <<<<"x">>>>

\* C29: in parseSlide the cursor strictly increases on every pass of the
\* dispatcher loop: each sub-parser returns an end index not smaller than
\* its start index, so every block appended to a slide consumed at least
\* one source line and no text block has empty content.
C29_CursorStrictlyIncreases ==
    [][(pc = "dispatch" /\ i < Len(At(slideChunks, k))) =>
          /\ pc' = "dispatch"
          /\ i' > i
          /\ \A b \in 1..Len(slide'.blocks) :
                 ~(slide'.blocks[b].type = "text" /\ slide'.blocks[b].content = <<>>)]_vars

\* C30: the segmenter and the block parser agree on what is inside a
\* fence: every dash-rule line that splitIntoSlides keeps as chunk content
\* because its backtick-line count is odd is consumed by parseSlide as
\* content of a code, chart or mindmap block, and is never met by the
\* dispatcher as a top-level line.
C30_SegmenterAndParserAgree ==
    pc = "dispatch" =>
        LET ls == At(slideChunks, k)
        IN  \A d \in 0..(Len(ls) - 1) :
                DashRule(At(ls, d)) => (BetweenFences(ls, 0, d) /\ i # d)

=============================================================================
